---- MODULE Spec2Model ----
(***************************************************************************)
(* Fantasy-football statistics service: importer, luck calculator, streak  *)
(* detector and legacy aggregator, modelled from the Python sources.       *)
(*                                                                         *)
(* Conventions                                                             *)
(*   - a table is a sequence of rows in rowid order;                       *)
(*   - scores are integers (points in a fixed unit), NULL is a sentinel;   *)
(*   - a name (team, owner) is a tuple of strings, so that the f-strings   *)
(*     of the source ("{first} {last}", "Team_{id}") are tuples;           *)
(*   - a JSON column holds the record json.dumps stores and json.loads     *)
(*     reads back, or NULL, or malformed text.                             *)
(***************************************************************************)
EXTENDS Integers, Sequences, FiniteSets, TLC

VARIABLES
    espn,                    \* the upstream league API: year -> season object
    teams,                   \* table teams
    matchups,                \* table matchups
    box_scores,              \* table box_scores
    leagues,                 \* table leagues
    import_log,              \* table import_log
    luck_analysis_matchups,  \* table luck_analysis_matchups
    luck_analysis_seasons,   \* table luck_analysis_seasons
    live_luck,               \* last response of GET /luck-analysis (app.py)
    streak_db,               \* last result of DatabaseAPI.get_streak_records
    streak_live,             \* last response of GET /streak-records (app.py)
    team_legacy,             \* table team_legacy
    legacy_db,               \* last result of DatabaseAPI.get_team_legacy
    legacy_live,             \* last response of GET /team-legacy (app.py)
    exchange,                \* last request of an HTTP handler and what it was answered
    lookup,                  \* last call of DatabaseAPI._get_owner_name and its outcome
    player_performances,     \* table player_performances
    activities,              \* table activities
    returned,                \* what the last run of a DatabaseUpdater method returned
    cache,                   \* cache_setup.cache_storage: entries (key, data, timestamp)
    clock,                   \* time.time(), in seconds
    writer,                  \* the position of a run that rewrites the luck tables
    luck_db                  \* last result of DatabaseAPI.get_luck_analysis

vars == <<espn, teams, matchups, box_scores, leagues, import_log, luck_analysis_matchups,
          luck_analysis_seasons, live_luck, streak_db, streak_live,
          team_legacy, legacy_db, legacy_live,
          exchange, lookup,
          player_performances, activities, returned, cache, clock, writer, luck_db>>

\* the state of the incremental updater, the response cache and the readers
later == <<player_performances, activities, returned, cache, clock, writer, luck_db>>

-----------------------------------------------------------------------------
(* Bounds of the model *)

MaxWeek == 2        \* weeks of the season in the luck specification
MaxRuns == 2        \* import runs logged in import_log
MaxGames == 6       \* weeks of the season in the streak specification
NumYears == 5       \* seasons of the dataset in the legacy specification
MaxPast == 3        \* weeks of the completed season in the roster specification
MaxNow == 1         \* completed weeks of the season in progress in the roster specification
ImportWeeks == 2    \* weeks of a season in the import specification
MaxLog == 3         \* rows of import_log in the update specification
MaxFeed == 2        \* activities of the upstream feed in the update specification

(* Program constants *)

CurrentYear == 2025      \* the in-progress season, hard-coded in every path
DefaultMaxWeek == 17     \* weeks walked in a completed season
MinSeasonGames == 5      \* HAVING games_played >= 5
StartYear == 2019        \* import_all_data(start_year=2019)
NULL == 0 - 999          \* SQL NULL / Python None of a numeric column

IsNull(v) == v = NULL

-----------------------------------------------------------------------------
(* Helpers: Python list and SQL idioms *)

\* [x for s_i in s for x in F(s_i)]
FlatMap(s, F(_)) ==
    LET f[i \in 0..Len(s)] == IF i = 0 THEN <<>> ELSE f[i - 1] \o F(s[i])
    IN f[Len(s)]

\* [F(s_i) for s_i in s]
Map(s, F(_)) ==
    LET f[i \in 0..Len(s)] == IF i = 0 THEN <<>> ELSE Append(f[i - 1], F(s[i]))
    IN f[Len(s)]

Range(s) == {s[i] : i \in 1..Len(s)}

RECURSIVE SumSeq(_)
SumSeq(s) == IF s = <<>> THEN 0 ELSE Head(s) + SumSeq(Tail(s))

SetMin(S) == CHOOSE m \in S : \A x \in S : m <= x
SetMax(S) == CHOOSE m \in S : \A x \in S : m >= x

RemoveAt(s, i) == SubSeq(s, 1, i - 1) \o SubSeq(s, i + 1, Len(s))

\* the sort key (year, week) of a row
YearWeek(r) == r.year * 100 + r.week

\* ORDER BY year, week / list.sort(key=lambda x: (x["year"], x["week"])):
\* a stable sort
RECURSIVE SortByYearWeek(_)
SortByYearWeek(s) ==
    IF s = <<>> THEN <<>>
    ELSE LET m == SetMin({YearWeek(s[i]) : i \in 1..Len(s)})
             i == SetMin({j \in 1..Len(s) : YearWeek(s[j]) = m})
         IN <<s[i]>> \o SortByYearWeek(RemoveAt(s, i))

\* a JSON text column: NULL, the text json.dumps wrote, or text that is no JSON
JsonNull == [kind |-> "null"]
JsonBad == [kind |-> "bad"]
JsonDumps(v) == [kind |-> "json", json |-> v]
JsonLoads(c) == c.json

-----------------------------------------------------------------------------
(* The upstream API client (espn_api.football.League), as the code uses it *)

\* League(league_id=LEAGUE_ID, year=year) raises: the season object of such a
\* year carries the field "raises"
LeagueRaises(year) == "raises" \in DOMAIN espn[year]

\* League(year).teams
LeagueTeams(year) == espn[year].teams

\* league.recent_activity(size=...): the activities of the feed, newest first
RecentActivity(year) ==
    IF "recent_activity" \in DOMAIN espn[year] THEN espn[year].recent_activity ELSE <<>>

\* getattr(box_score, 'home_lineup', []) and getattr(box_score, 'away_lineup', [])
HomeLineup(g) == IF "home_lineup" \in DOMAIN g THEN g.home_lineup ELSE <<>>
AwayLineup(g) == IF "away_lineup" \in DOMAIN g THEN g.away_lineup ELSE <<>>

\* League(2025).previousSeasons
PreviousSeasons == DOMAIN espn \ {CurrentYear}

\* what a call for one week gives: "box" (box_scores(week) answers),
\* "scoreboard" (box_scores raises, scoreboard(week) answers), "fail" (both raise)
WeekResponse(year, week) ==
    IF week \in 1..Len(espn[year].weeks)
    THEN espn[year].weeks[week]
    ELSE [kind |-> "fail", games |-> <<>>]

\* max_week = 17 if year < 2025 else (league.current_week if ... else 17)
MaxWeekOf(year) ==
    IF year < CurrentYear THEN DefaultMaxWeek
    ELSE IF espn[year].current_week # 0 THEN espn[year].current_week
    ELSE DefaultMaxWeek

WeeksOf(year) == [w \in 1..MaxWeekOf(year) |-> w]

\* no request answered yet, no owner looked up yet
NoExchange == [handler |-> "none", year |-> NULL, week |-> NULL, upstream |-> "ok",
               raised |-> [cls |-> "none", status_code |-> NULL,
                           detail |-> <<>>, str |-> <<>>],
               upstream_calls |-> 0, wire |-> <<>>]
NoLookup == [team_data |-> [team_id |-> NULL, owners |-> [kind |-> "null"]],
             outcome |-> "none", cls |-> "none", name |-> <<>>]

\* no activity and no player performance stored, no updater run yet, an empty
\* cache, no run rewriting the luck tables, no luck query answered
NoReturn == [method |-> "none", value |-> NULL, outcome |-> "none",
             recalculated |-> FALSE, before |-> <<>>, previous |-> "none"]
NoWriter == [pc |-> "idle"]
NoLuckDb == [kind |-> "none"]

InitLater ==
    /\ player_performances = <<>>
    /\ activities = <<>>
    /\ returned = NoReturn
    /\ cache = {}
    /\ clock = 0
    /\ writer = NoWriter
    /\ luck_db = NoLuckDb

-----------------------------------------------------------------------------
(* database.py and the schema's natural keys *)

\* the natural keys (UNIQUE constraints) of the tables, as column names
TeamsKey == <<"team_id", "year">>
MatchupsKey == <<"year", "week", "home_team_id", "away_team_id">>
BoxScoresKey == <<"year", "week", "home_team_id", "away_team_id">>
LeaguesKey == <<"year">>
PlayerPerformancesKey == <<"player_id", "year", "week">>

KeyOf(row, key) == [i \in 1..Len(key) |-> row[key[i]]]

\* a plain INSERT: the row is added whatever the table holds
ExecuteInsertPlain(table, row, key) == Append(table, row)

\* INSERT OR REPLACE INTO table: the rows in conflict with the new row on the
\* table's key are deleted, the new row is added at the end
ExecuteInsert(table, row, key) ==
    SelectSeq(table, LAMBDA r : KeyOf(r, key) # KeyOf(row, key)) \o <<row>>

\* executemany of the same statement over data_list, in order
ExecuteManyInserts(table, data_list, key) ==
    LET f[i \in 0..Len(data_list)] ==
            IF i = 0 THEN table ELSE ExecuteInsert(f[i - 1], data_list[i], key)
    IN f[Len(data_list)]

-----------------------------------------------------------------------------
(* import_espn_data.py: ESPNDataImporter *)

TeamRow(year, team) ==
    [team_id |-> team.team_id, year |-> year, team_name |-> team.team_name,
     wins |-> team.wins, losses |-> team.losses, ties |-> team.ties,
     points_for |-> team.points_for, points_against |-> team.points_against,
     owners |-> JsonDumps(team.owners),
     standing |-> team.standing, final_standing |-> team.final_standing]

BoxScoreRow(year, week, g) ==
    [year |-> year, week |-> week,
     home_team_id |-> g.home_team_id, away_team_id |-> g.away_team_id,
     home_score |-> g.home_score, home_projected |-> g.home_projected,
     away_score |-> g.away_score, away_projected |-> g.away_projected]

MatchupRow(year, week, g) ==
    [year |-> year, week |-> week,
     home_team_id |-> g.home_team_id, away_team_id |-> g.away_team_id,
     home_score |-> g.home_score, away_score |-> g.away_score]

LeagueRow(year) == [year |-> year, current_week |-> espn[year].current_week]

\* performance_data of one player of a lineup
PerformanceRow(year, week, team_id, player) ==
    [player_id |-> player.playerId, year |-> year, week |-> week,
     team_id |-> team_id, points |-> player.points]

\* the performance_data of the home lineup, then of the away lineup
PerformanceRows(year, week, g) ==
    Map(HomeLineup(g), LAMBDA pl : PerformanceRow(year, week, g.home_team_id, pl))
    \o Map(AwayLineup(g), LAMBDA pl : PerformanceRow(year, week, g.away_team_id, pl))

\* activity_data: the table has no natural key, a row is added per insert
ActivityRow(year, activity) ==
    [year |-> year, date |-> activity.date, actions |-> activity.actions]

import_league_data(db, year) ==
    [db EXCEPT !.leagues = ExecuteInsert(@, LeagueRow(year), LeaguesKey)]

import_teams(db, year) ==
    LET teams_data == Map(LeagueTeams(year), LAMBDA t : TeamRow(year, t))
    IN [db EXCEPT !.teams = ExecuteManyInserts(@, teams_data, TeamsKey)]

import_matchups_and_players(db, year) ==
    LET box_scores_data ==
            FlatMap(WeeksOf(year), LAMBDA w :
                IF WeekResponse(year, w).kind = "box"
                THEN Map(WeekResponse(year, w).games,
                         LAMBDA g : BoxScoreRow(year, w, g))
                ELSE <<>>)
        matchups_data ==
            FlatMap(WeeksOf(year), LAMBDA w :
                IF WeekResponse(year, w).kind \in {"box", "scoreboard"}
                THEN Map(WeekResponse(year, w).games,
                         LAMBDA g : MatchupRow(year, w, g))
                ELSE <<>>)
        player_performances_data ==
            FlatMap(WeeksOf(year), LAMBDA w :
                IF WeekResponse(year, w).kind = "box"
                THEN FlatMap(WeekResponse(year, w).games,
                             LAMBDA g : PerformanceRows(year, w, g))
                ELSE <<>>)
    IN [db EXCEPT
          !.matchups = ExecuteManyInserts(@, matchups_data, MatchupsKey),
          !.box_scores = ExecuteManyInserts(@, box_scores_data, BoxScoresKey),
          !.player_performances =
              ExecuteManyInserts(@, player_performances_data, PlayerPerformancesKey)]

\* activities = league.recent_activity(size=1000); execute_many_inserts
import_activities(db, year) ==
    [db EXCEPT !.activities =
        @ \o Map(RecentActivity(year), LAMBDA a : ActivityRow(year, a))]

import_year_data(db, year) ==
    import_activities(
        import_matchups_and_players(
            import_teams(import_league_data(db, year), year), year), year)

\* available_years = sorted(set([end_year] + previousSeasons in range))
ImportYears ==
    {CurrentYear} \cup {y \in PreviousSeasons : StartYear <= y /\ y <= CurrentYear}

\* for year in available_years: self.import_year_data(year); the exception
\* import_year_data re-raises ends the loop
RECURSIVE ImportFrom(_, _)
ImportFrom(db, years) ==
    IF years = {} THEN db
    ELSE LET y == SetMin(years)
         IN IF LeagueRaises(y) THEN db
            ELSE ImportFrom(import_year_data(db, y), years \ {y})

\* the try block of import_all_data raises
ImportRaises == LeagueRaises(CurrentYear) \/ \E y \in ImportYears : LeagueRaises(y)

import_all_data(db) ==
    IF LeagueRaises(CurrentYear) THEN db ELSE ImportFrom(db, ImportYears)

EmptyDb == [teams |-> <<>>, matchups |-> <<>>, box_scores |-> <<>>, leagues |-> <<>>,
            player_performances |-> <<>>, activities |-> <<>>]
Db == [teams |-> teams, matchups |-> matchups, box_scores |-> box_scores,
       leagues |-> leagues,
       player_performances |-> player_performances, activities |-> activities]

\* log_import_start('full', 'all_tables') ... log_import_complete(log_id, ...)
\* or, in the except clause, log_import_error(log_id, str(e))
FullImportLogged ==
    Append(import_log,
           [import_type |-> "full", table_name |-> "all_tables",
            status |-> IF ImportRaises THEN "failed" ELSE "completed"])

ImportAllData ==
    /\ Len(import_log) < MaxRuns
    /\ import_log' = FullImportLogged
    /\ LET db == import_all_data(Db)
       IN /\ teams' = db.teams
          /\ matchups' = db.matchups
          /\ box_scores' = db.box_scores
          /\ leagues' = db.leagues
          /\ player_performances' = db.player_performances
          /\ activities' = db.activities
    /\ UNCHANGED <<espn, luck_analysis_matchups, luck_analysis_seasons, live_luck,
                   streak_db, streak_live, team_legacy, legacy_db, legacy_live,
                   exchange, lookup,
                   returned, cache, clock, writer, luck_db>>

-----------------------------------------------------------------------------
(* calculate_luck.py *)

\* the mutant of calculate_luck_for_matchup: the opponent's variance is added
calculate_luck_for_matchup_added(actual_score, projected_score, opponent_actual, opponent_projected) ==
    (actual_score - projected_score) + (opponent_actual - opponent_projected)

calculate_luck_for_matchup(actual_score, projected_score, opponent_actual, opponent_projected) ==
    LET your_variance == actual_score - projected_score
        opponent_variance == opponent_actual - opponent_projected
    IN your_variance - opponent_variance

\* get_owner_name(owners_json), local to populate_luck_analysis
PopulateOwnerName(owners_json) ==
    LET owners == IF owners_json.kind = "json" THEN JsonLoads(owners_json) ELSE <<>>
    IN IF owners # <<>>
       THEN IF "firstName" \in DOMAIN owners[1] /\ "lastName" \in DOMAIN owners[1]
            THEN owners[1].firstName \o owners[1].lastName
            ELSE IF "displayName" \in DOMAIN owners[1]
                 THEN owners[1].displayName
                 ELSE <<"Unknown">>
       ELSE <<"Unknown">>

\* SELECT ... FROM matchups m JOIN teams ht JOIN teams at JOIN box_scores bs
\* WHERE bs.home_projected > 0 AND bs.away_projected > 0 ORDER BY m.year, m.week
PopulateQuery ==
    FlatMap(SortByYearWeek(matchups), LAMBDA m :
      FlatMap(SelectSeq(teams, LAMBDA t :
                  t.team_id = m.home_team_id /\ t.year = m.year), LAMBDA ht :
        FlatMap(SelectSeq(teams, LAMBDA t :
                    t.team_id = m.away_team_id /\ t.year = m.year), LAMBDA at :
          FlatMap(SelectSeq(box_scores, LAMBDA b :
                      /\ b.year = m.year /\ b.week = m.week
                      /\ b.home_team_id = m.home_team_id
                      /\ b.away_team_id = m.away_team_id
                      /\ ~IsNull(b.home_projected) /\ b.home_projected > 0
                      /\ ~IsNull(b.away_projected) /\ b.away_projected > 0),
                  LAMBDA bs :
            << [year |-> m.year, week |-> m.week,
                home_team_id |-> m.home_team_id, away_team_id |-> m.away_team_id,
                home_score |-> m.home_score, away_score |-> m.away_score,
                home_team_name |-> ht.team_name, away_team_name |-> at.team_name,
                home_owners |-> ht.owners, away_owners |-> at.owners,
                home_projected |-> bs.home_projected,
                away_projected |-> bs.away_projected] >>))))

LuckRow(year, week, team_id, team_name, owner_name, opponent_team_id, opponent_name, luck_points, actual_score, projected_score, opponent_actual, opponent_projected, actual_margin, projected_margin) ==
    [year |-> year, week |-> week, team_id |-> team_id, team_name |-> team_name,
     owner_name |-> owner_name, opponent_team_id |-> opponent_team_id,
     opponent_name |-> opponent_name, luck_points |-> luck_points,
     actual_score |-> actual_score, projected_score |-> projected_score,
     opponent_actual |-> opponent_actual, opponent_projected |-> opponent_projected,
     actual_margin |-> actual_margin, projected_margin |-> projected_margin]

\* the two rows populate_luck_analysis stores for one joined matchup
PopulateLuckRows(q) ==
    LET home_owner == PopulateOwnerName(q.home_owners)
        away_owner == PopulateOwnerName(q.away_owners)
        home_luck == calculate_luck_for_matchup(
                         q.home_score, q.home_projected, q.away_score, q.away_projected)
        away_luck == calculate_luck_for_matchup(
                         q.away_score, q.away_projected, q.home_score, q.home_projected)
    IN << LuckRow(q.year, q.week, q.home_team_id, q.home_team_name, home_owner,
                  q.away_team_id, q.away_team_name,
                  home_luck, q.home_score, q.home_projected,
                  q.away_score, q.away_projected,
                  q.home_score - q.away_score, q.home_projected - q.away_projected),
          LuckRow(q.year, q.week, q.away_team_id, q.away_team_name, away_owner,
                  q.home_team_id, q.home_team_name,
                  away_luck, q.away_score, q.away_projected,
                  q.home_score, q.home_projected,
                  q.away_score - q.home_score, q.away_projected - q.home_projected) >>

PopulateLuckMatchups == FlatMap(PopulateQuery, PopulateLuckRows)

\* SELECT ... FROM luck_analysis_matchups GROUP BY year, team_name, owner_name
\* HAVING games_played >= 5 ORDER BY year, total_luck DESC, and the three
\* LIMIT 1 look-ups made for each group
PopulateSeasonRecord(rows, g) ==
    LET mine == SelectSeq(rows, LAMBDA r :
                    r.year = g[1] /\ r.team_name = g[2] /\ r.owner_name = g[3])
        named == SelectSeq(rows, LAMBDA r : r.year = g[1] /\ r.team_name = g[2])
        lucks == {mine[i].luck_points : i \in 1..Len(mine)}
        lucky == SelectSeq(named, LAMBDA r : r.luck_points = SetMax(lucks))[1]
        unlucky == SelectSeq(named, LAMBDA r : r.luck_points = SetMin(lucks))[1]
        total == SumSeq(Map(mine, LAMBDA r : r.luck_points))
    IN [year |-> g[1], team_id |-> named[1].team_id, owner_name |-> g[3],
        team_name |-> g[2], total_luck |-> total,
        average_luck |-> <<total, Len(mine)>>, games_played |-> Len(mine),
        biggest_lucky_week |-> lucky.week,
        biggest_lucky_opponent |-> lucky.opponent_name,
        biggest_lucky_points |-> SetMax(lucks),
        biggest_lucky_margin |-> lucky.actual_margin,
        biggest_unlucky_week |-> unlucky.week,
        biggest_unlucky_opponent |-> unlucky.opponent_name,
        biggest_unlucky_points |-> SetMin(lucks),
        biggest_unlucky_margin |-> unlucky.actual_margin]

\* ORDER BY year, total_luck DESC over the season records; rows equal on both
\* keep the order of their first game
RECURSIVE SortSeasons(_)
SortSeasons(s) ==
    IF s = <<>> THEN <<>>
    ELSE LET y == SetMin({s[i].year : i \in 1..Len(s)})
             t == SetMax({s[i].total_luck : i \in {j \in 1..Len(s) : s[j].year = y}})
             i == SetMin({j \in 1..Len(s) : s[j].year = y /\ s[j].total_luck = t})
         IN <<s[i]>> \o SortSeasons(RemoveAt(s, i))

PopulateSeasonRecords(rows) ==
    LET group(r) == <<r.year, r.team_name, r.owner_name>>
        firsts == SelectSeq([i \in 1..Len(rows) |-> i], LAMBDA i :
                      \A j \in 1..(i - 1) : group(rows[j]) # group(rows[i]))
        kept == SelectSeq(firsts, LAMBDA i :
                    Cardinality({j \in 1..Len(rows) : group(rows[j]) = group(rows[i])})
                        >= MinSeasonGames)
    IN SortSeasons(Map(kept, LAMBDA i : PopulateSeasonRecord(rows, group(rows[i]))))

populate_luck_analysis ==
    /\ luck_analysis_matchups' = PopulateLuckMatchups
    /\ luck_analysis_seasons' = PopulateSeasonRecords(PopulateLuckMatchups)
    /\ UNCHANGED <<espn, teams, matchups, box_scores, leagues, import_log, live_luck, streak_db,
                   streak_live, team_legacy, legacy_db, legacy_live,
                   exchange, lookup,
                   later>>

-----------------------------------------------------------------------------
(* update_database.py: DatabaseUpdater.recalculate_luck_analysis *)

\* the natural keys of the derived luck tables
LuckSeasonsKey == <<"year", "team_id">>
LuckMatchupsKey == <<"year", "week", "team_id">>

TeamLabel(team_id) == <<"Team_", ToString(team_id)>>

\* owners[0].get('displayName', f"Team_{id}") if owners else f"Team_{id}",
\* the f-string also when json.loads raises
RecalcOwnerName(owners_json, team_id) ==
    LET owners == IF owners_json.kind = "json" THEN JsonLoads(owners_json) ELSE <<>>
    IN IF owners # <<>> /\ "displayName" \in DOMAIN owners[1]
       THEN owners[1].displayName
       ELSE TeamLabel(team_id)

\* SELECT bs.*, ... FROM box_scores bs JOIN teams ht JOIN teams at ORDER BY year, week
RecalcQuery ==
    FlatMap(SortByYearWeek(box_scores), LAMBDA bs :
      FlatMap(SelectSeq(teams, LAMBDA t :
                  t.team_id = bs.home_team_id /\ t.year = bs.year), LAMBDA ht :
        FlatMap(SelectSeq(teams, LAMBDA t :
                    t.team_id = bs.away_team_id /\ t.year = bs.year), LAMBDA at :
          << [year |-> bs.year, week |-> bs.week,
              home_team_id |-> bs.home_team_id, away_team_id |-> bs.away_team_id,
              home_score |-> bs.home_score, away_score |-> bs.away_score,
              home_projected |-> bs.home_projected,
              away_projected |-> bs.away_projected,
              home_owners |-> ht.owners, home_name |-> ht.team_name,
              away_owners |-> at.owners, away_name |-> at.team_name] >>)))

\* the subtraction of a None raises TypeError
RowRaises(row) ==
    \/ IsNull(row.home_projected) \/ IsNull(row.away_projected)
    \/ IsNull(row.home_score) \/ IsNull(row.away_score)

\* the mutant of RecalcLuckRows: the projected margin is added to the actual one
RecalcLuckRowsAdded(row) ==
    LET home_projected_margin == row.home_projected - row.away_projected
        home_actual_margin == row.home_score - row.away_score
        home_luck == home_actual_margin + home_projected_margin
        away_luck == 0 - home_luck
    IN << LuckRow(row.year, row.week, row.home_team_id, row.home_name,
                  RecalcOwnerName(row.home_owners, row.home_team_id),
                  row.away_team_id, row.away_name,
                  home_luck, row.home_score, row.home_projected,
                  row.away_score, row.away_projected,
                  home_actual_margin, home_projected_margin),
          LuckRow(row.year, row.week, row.away_team_id, row.away_name,
                  RecalcOwnerName(row.away_owners, row.away_team_id),
                  row.home_team_id, row.home_name,
                  away_luck, row.away_score, row.away_projected,
                  row.home_score, row.home_projected,
                  0 - home_actual_margin, 0 - home_projected_margin) >>

\* the two dicts appended to matchup_luck for one row
RecalcLuckRows(row) ==
    LET home_projected_margin == row.home_projected - row.away_projected
        home_actual_margin == row.home_score - row.away_score
        home_luck == home_actual_margin - home_projected_margin
        away_luck == 0 - home_luck
        home_owner == RecalcOwnerName(row.home_owners, row.home_team_id)
        away_owner == RecalcOwnerName(row.away_owners, row.away_team_id)
    IN << LuckRow(row.year, row.week, row.home_team_id, row.home_name, home_owner,
                  row.away_team_id, row.away_name,
                  home_luck, row.home_score, row.home_projected,
                  row.away_score, row.away_projected,
                  home_actual_margin, home_projected_margin),
          LuckRow(row.year, row.week, row.away_team_id, row.away_name, away_owner,
                  row.home_team_id, row.home_name,
                  away_luck, row.away_score, row.away_projected,
                  row.home_score, row.home_projected,
                  0 - home_actual_margin, 0 - home_projected_margin) >>

\* luck_data[key] after one more game of the team: the running total, count,
\* maximum and minimum, all started at 0
AggregateSeasonLuck(luck_data, r) ==
    LET known == \E i \in 1..Len(luck_data) :
                    luck_data[i].team_id = r.team_id /\ luck_data[i].year = r.year
        fresh == [year |-> r.year, team_id |-> r.team_id,
                  owner_name |-> r.owner_name, team_name |-> r.team_name,
                  total_luck |-> 0, games_played |-> 0,
                  biggest_lucky_week |-> 0, biggest_lucky_opponent |-> <<>>,
                  biggest_lucky_points |-> 0,
                  biggest_unlucky_week |-> 0, biggest_unlucky_opponent |-> <<>>,
                  biggest_unlucky_points |-> 0]
        started == IF known THEN luck_data ELSE Append(luck_data, fresh)
        update(d) ==
            LET lucky == r.luck_points > d.biggest_lucky_points
                unlucky == r.luck_points < d.biggest_unlucky_points
            IN [d EXCEPT
                  !.total_luck = @ + r.luck_points,
                  !.games_played = @ + 1,
                  !.biggest_lucky_points = IF lucky THEN r.luck_points ELSE @,
                  !.biggest_lucky_week = IF lucky THEN r.week ELSE @,
                  !.biggest_lucky_opponent = IF lucky THEN r.opponent_name ELSE @,
                  !.biggest_unlucky_points = IF unlucky THEN r.luck_points ELSE @,
                  !.biggest_unlucky_week = IF unlucky THEN r.week ELSE @,
                  !.biggest_unlucky_opponent = IF unlucky THEN r.opponent_name ELSE @]
    IN [i \in 1..Len(started) |->
          IF started[i].team_id = r.team_id /\ started[i].year = r.year
          THEN update(started[i]) ELSE started[i]]

RecalcSeasonData(rows) ==
    LET f[i \in 0..Len(rows)] ==
            IF i = 0 THEN <<>> ELSE AggregateSeasonLuck(f[i - 1], rows[i])
    IN f[Len(rows)]

\* data['average_luck'] = total_luck / games_played, a quotient kept as a pair
WithAverageLuck(d) ==
    [year |-> d.year, team_id |-> d.team_id, owner_name |-> d.owner_name,
     team_name |-> d.team_name, total_luck |-> d.total_luck,
     games_played |-> d.games_played,
     biggest_lucky_week |-> d.biggest_lucky_week,
     biggest_lucky_opponent |-> d.biggest_lucky_opponent,
     biggest_lucky_points |-> d.biggest_lucky_points,
     biggest_unlucky_week |-> d.biggest_unlucky_week,
     biggest_unlucky_opponent |-> d.biggest_unlucky_opponent,
     biggest_unlucky_points |-> d.biggest_unlucky_points,
     average_luck |-> <<d.total_luck, d.games_played>>]

RecalcMatchupLuck == FlatMap(RecalcQuery, RecalcLuckRows)

\* the loop over the query's rows raises
RecalcRaises == \E i \in 1..Len(RecalcQuery) : RowRaises(RecalcQuery[i])

\* season_luck_data and matchup_luck, as the tables they are inserted into
RecalcSeasonTable ==
    ExecuteManyInserts(<<>>, Map(RecalcSeasonData(RecalcMatchupLuck), WithAverageLuck),
                       LuckSeasonsKey)
RecalcMatchupTable == ExecuteManyInserts(<<>>, RecalcMatchupLuck, LuckMatchupsKey)

\* both tables are deleted first; an exception in the loop leaves them so
RecalcLuckTables ==
    IF RecalcRaises
    THEN /\ luck_analysis_seasons' = <<>>
         /\ luck_analysis_matchups' = <<>>
    ELSE /\ luck_analysis_seasons' = RecalcSeasonTable
         /\ luck_analysis_matchups' = RecalcMatchupTable

recalculate_luck_analysis ==
    /\ RecalcLuckTables
    /\ UNCHANGED <<espn, teams, matchups, box_scores, leagues, import_log, live_luck, streak_db,
                   streak_live, team_legacy, legacy_db, legacy_live,
                   exchange, lookup,
                   later>>

-----------------------------------------------------------------------------
(* app.py: GET /luck-analysis, computed from the upstream API on each request *)

\* round(n / d, 2) of amounts counted in hundredths: the nearest integer,
\* a half going to the even one
RoundDiv(n, d) ==
    LET f == n \div d
        twice == 2 * (n - f * d)
    IN IF twice < d THEN f
       ELSE IF twice > d THEN f + 1
       ELSE IF f % 2 = 0 THEN f ELSE f + 1

\* available_years = [2025] + previousSeasons, sorted(reverse=True)
RECURSIVE Descending(_)
Descending(S) ==
    IF S = {} THEN <<>> ELSE <<SetMax(S)>> \o Descending(S \ {SetMax(S)})

AvailableYears == Descending({CurrentYear} \cup PreviousSeasons)

\* matchup.home_team / matchup.away_team: the team object of the season
TeamById(year, team_id) ==
    LET ts == SelectSeq(LeagueTeams(year), LAMBDA t : t.team_id = team_id)
    IN ts[1]

Truthy(owner, field) == field \in DOMAIN owner /\ owner[field] # <<>>

\* f"{firstName} {lastName}".strip() if owners and owners[0].get('firstName')
\* else (owners[0]['displayName'] if owners else f"Team_{team_id}")
LiveOwnerRaises(team) ==
    /\ team.owners # <<>>
    /\ ~Truthy(team.owners[1], "firstName")
    /\ "displayName" \notin DOMAIN team.owners[1]

LiveOwnerName(team) ==
    IF team.owners # <<>> /\ Truthy(team.owners[1], "firstName")
    THEN team.owners[1].firstName
             \o (IF "lastName" \in DOMAIN team.owners[1]
                 THEN team.owners[1].lastName ELSE <<>>)
    ELSE IF team.owners # <<>> THEN team.owners[1].displayName
    ELSE TeamLabel(team.team_id)

\* the handling of one matchup raises: None in the arithmetic, or no displayName
LiveGameRaises(year, g) ==
    \/ IsNull(g.home_projected) \/ IsNull(g.away_projected)
    \/ IsNull(g.home_score) \/ IsNull(g.away_score)
    \/ LiveOwnerRaises(TeamById(year, g.home_team_id))
    \/ LiveOwnerRaises(TeamById(year, g.away_team_id))

\* the matchups of a week the loop body handles: none when box_scores raises or
\* is empty, none in the current year when no game has both scores above 0, and
\* otherwise those before the first one that raises
LiveWeekGames(year, week) ==
    LET r == WeekResponse(year, week)
        completed == \E i \in 1..Len(r.games) :
                        r.games[i].home_score > 0 /\ r.games[i].away_score > 0
        bad == {i \in 1..Len(r.games) : LiveGameRaises(year, r.games[i])}
    IN IF r.kind # "box" \/ r.games = <<>> THEN <<>>
       ELSE IF year = CurrentYear /\ ~completed THEN <<>>
       ELSE IF bad = {} THEN r.games
       ELSE SubSeq(r.games, 1, SetMin(bad) - 1)

\* the two records appended to single_matchup_luck for one matchup
LiveLuckRows(year, week, g) ==
    LET home == TeamById(year, g.home_team_id)
        away == TeamById(year, g.away_team_id)
        home_projected_margin == g.home_projected - g.away_projected
        home_actual_margin == g.home_score - g.away_score
        home_luck == home_actual_margin - home_projected_margin
        away_luck == 0 - home_luck
    IN << [year |-> year, week |-> week, team_id |-> home.team_id,
           team_name |-> home.team_name, owner |-> LiveOwnerName(home),
           opponent |-> away.team_name, luck |-> home_luck,
           actual_score |-> g.home_score, projected_score |-> g.home_projected,
           opponent_actual |-> g.away_score, opponent_projected |-> g.away_projected,
           actual_margin |-> home_actual_margin,
           projected_margin |-> home_projected_margin],
          [year |-> year, week |-> week, team_id |-> away.team_id,
           team_name |-> away.team_name, owner |-> LiveOwnerName(away),
           opponent |-> home.team_name, luck |-> away_luck,
           actual_score |-> g.away_score, projected_score |-> g.away_projected,
           opponent_actual |-> g.home_score, opponent_projected |-> g.home_projected,
           actual_margin |-> 0 - home_actual_margin,
           projected_margin |-> 0 - home_projected_margin] >>

LiveYearRows(year) ==
    FlatMap(WeeksOf(year), LAMBDA w :
        FlatMap(LiveWeekGames(year, w), LAMBDA g : LiveLuckRows(year, w, g)))

\* season_team_luck[team_id] after one more game of the team
LiveAggregate(season_team_luck, r) ==
    LET known == \E i \in 1..Len(season_team_luck) :
                    season_team_luck[i].team_id = r.team_id
        fresh == [team_id |-> r.team_id, team_name |-> r.team_name,
                  owner |-> r.owner, total_luck |-> 0, games_played |-> 0,
                  biggest_lucky_game |->
                      [luck |-> 0, week |-> 0, opponent |-> <<>>, margin |-> 0],
                  biggest_unlucky_game |->
                      [luck |-> 0, week |-> 0, opponent |-> <<>>, margin |-> 0]]
        started == IF known THEN season_team_luck ELSE Append(season_team_luck, fresh)
        game == [luck |-> r.luck, week |-> r.week, opponent |-> r.opponent,
                 margin |-> r.actual_margin]
        update(d) ==
            [d EXCEPT
               !.total_luck = @ + r.luck,
               !.games_played = @ + 1,
               !.biggest_lucky_game = IF r.luck > @.luck THEN game ELSE @,
               !.biggest_unlucky_game = IF r.luck < @.luck THEN game ELSE @]
    IN [i \in 1..Len(started) |->
          IF started[i].team_id = r.team_id THEN update(started[i]) ELSE started[i]]

LiveSeasonTeamLuck(year) ==
    LET rows == LiveYearRows(year)
        f[i \in 0..Len(rows)] ==
            IF i = 0 THEN <<>> ELSE LiveAggregate(f[i - 1], rows[i])
    IN f[Len(rows)]

\* season_luck_data.append({...}) for the teams with games_played > 0
LiveSeasonData(year) ==
    Map(SelectSeq(LiveSeasonTeamLuck(year), LAMBDA d : d.games_played > 0),
        LAMBDA d :
            [year |-> year, team_id |-> d.team_id, team_name |-> d.team_name,
             owner |-> d.owner, total_luck |-> d.total_luck,
             average_luck |-> RoundDiv(d.total_luck, d.games_played),
             games_played |-> d.games_played,
             biggest_lucky_game |-> d.biggest_lucky_game,
             biggest_unlucky_game |-> d.biggest_unlucky_game])

get_luck_analysis ==
    /\ live_luck' = [single_matchup_luck |-> FlatMap(AvailableYears, LiveYearRows),
                     season_luck_data |-> FlatMap(AvailableYears, LiveSeasonData)]
    /\ UNCHANGED <<espn, teams, matchups, box_scores, leagues, import_log, luck_analysis_matchups,
                   luck_analysis_seasons, streak_db, streak_live, team_legacy,
                   legacy_db, legacy_live,
                   exchange, lookup,
                   later>>

-----------------------------------------------------------------------------
(* db_api.py: DatabaseAPI owner resolution and get_streak_records *)

_get_espn_owner_id_mapping ==
    "{B5FBB7B7-C134-4B6B-BBB7-B7C1343B6BCF}" :> <<"D'Anthony">>
    @@ "{247150F3-5E23-403B-B150-F35E23603B86}" :> <<"Robert">>
    @@ "{B67B55F7-CBF5-4789-BB55-F7CBF5A78967}" :> <<"Luke">>
    @@ "{604BB883-79E2-4222-8BB8-8379E2922282}" :> <<"Dylan">>
    @@ "{E2A887FA-CFF4-4F06-A887-FACFF40F0667}" :> <<"Derek">>
    @@ "{7B4DE853-00A2-41CA-8494-216DEAD703FA}" :> <<"Zach">>
    @@ "{AC97CE73-BCAB-4F60-AF01-A4E51D98145A}" :> <<"Cody">>
    @@ "{BC146B65-4056-4B5A-946B-6540566B5ABF}" :> <<"Alec">>
    @@ "{E3298BFC-6D98-4852-AD4A-E1E138A72791}" :> <<"Andre">>
    @@ "{8AA29716-021A-4CB9-8306-8ABC5E14D5BD}" :> <<"Sam">>
    @@ "{B461B1C8-244E-4927-BFD1-FC980E492516}" :> <<"Blake">>
    @@ "{2EC18A2F-6C3B-41FF-9B3D-1305343ACF66}" :> <<"Brett">>
    @@ "{EB9FA5E5-2DF6-48AC-9FA5-E52DF688AC5F}" :> <<"Shane">>
    @@ "{49B96E8E-113F-4403-8AD7-D7E785D16975}" :> <<"Julian">>

_get_team_id_owner_mapping ==
    1 :> <<"D'Anthony">> @@ 2 :> <<"Robert">> @@ 3 :> <<"Luke">>
    @@ 4 :> <<"Dylan">> @@ 6 :> <<"Derek">> @@ 8 :> <<"Nick">>
    @@ 9 :> <<"Cody">> @@ 10 :> <<"Alec">> @@ 11 :> <<"Andre">>
    @@ 12 :> <<"Sam">> @@ 13 :> <<"Blake">> @@ 14 :> <<"Charlie">>

\* except (json.JSONDecodeError, TypeError, AttributeError): pass
OwnerNameCaughtNot == {"JSONDecodeError"}

OwnerNameCaught == {"JSONDecodeError", "TypeError", "AttributeError"}

\* the try block of _get_owner_name: it returns the name of the first owner's
\* ESPN id, raises, or runs to its end. The owners column is None ("null"),
\* the empty text ("empty"), text json.loads rejects ("bad"), a JSON object
\* ("object"), a list whose first entry is not an object ("scalars"), a list
\* whose first entry has a list for id ("unhashable"), or a list of objects
\* ("json").
OwnerNameTry(owners_json) ==
    LET passes == [outcome |-> "passes", cls |-> "none", name |-> <<>>]
        raises(cls) == [outcome |-> "raises", cls |-> cls, name |-> <<>>]
    IN CASE owners_json.kind = "bad" -> raises("JSONDecodeError")
         [] owners_json.kind = "object" -> passes
         [] owners_json.kind = "scalars" -> raises("AttributeError")
         [] owners_json.kind = "unhashable" -> raises("TypeError")
         [] OTHER ->
            LET owners == JsonLoads(owners_json)
                espn_id == IF owners # <<>> /\ "id" \in DOMAIN owners[1]
                           THEN owners[1].id ELSE ""
            IN IF espn_id # "" /\ espn_id \in DOMAIN _get_espn_owner_id_mapping
               THEN [outcome |-> "returns", cls |-> "none",
                     name |-> _get_espn_owner_id_mapping[espn_id]]
               ELSE passes

\* the call of _get_owner_name: the name returned, or the exception that
\* leaves it
OwnerNameCall(team_data) ==
    LET owners_json == team_data.owners
        tried == IF owners_json.kind \in {"null", "empty"}
                 THEN [outcome |-> "passes", cls |-> "none", name |-> <<>>]
                 ELSE OwnerNameTry(owners_json)
    IN IF tried.outcome = "returns"
       THEN [outcome |-> "returned", cls |-> "none", name |-> tried.name]
       ELSE IF tried.outcome = "raises" /\ tried.cls \notin OwnerNameCaught
            THEN [outcome |-> "raised", cls |-> tried.cls, name |-> <<>>]
            ELSE IF team_data.team_id \in DOMAIN _get_team_id_owner_mapping
                 THEN [outcome |-> "returned", cls |-> "none",
                       name |-> _get_team_id_owner_mapping[team_data.team_id]]
                 ELSE [outcome |-> "returned", cls |-> "none",
                       name |-> <<"Unknown">>]

\* team_data is a dict with the keys team_id (NULL when the query did not
\* select it) and owners (the JSON text column)
_get_owner_name(team_data) == OwnerNameCall(team_data).name

\* if year: (None and 0 are falsy)
YearGiven(year) == ~IsNull(year) /\ year # 0

\* SELECT current_week FROM leagues WHERE year = ? (first row or None)
CurrentWeekData(year) == SelectSeq(leagues, LAMBDA l : l.year = year)

\* week_filter, as a predicate of the matchups row m
WeekFilter(m, year) ==
    IF YearGiven(year)
    THEN IF CurrentWeekData(year) # <<>> /\ year = CurrentYear
         THEN m.week < CurrentWeekData(year)[1].current_week
         ELSE IF CurrentWeekData(year) # <<>>
              THEN m.week <= CurrentWeekData(year)[1].current_week
              ELSE TRUE
    ELSE \E i \in 1..Len(leagues) :
            /\ leagues[i].year = m.year
            /\ ~IsNull(leagues[i].current_week)
            /\ \/ m.year = CurrentYear /\ m.week < leagues[i].current_week
               \/ m.year < CurrentYear /\ m.week <= leagues[i].current_week

\* matchups m JOIN teams ht JOIN teams at {years_filter} {week_filter}
\* ORDER BY m.year, m.week
StreakQuery(year) ==
    FlatMap(SortByYearWeek(matchups), LAMBDA m :
      IF (YearGiven(year) => m.year = year) /\ WeekFilter(m, year)
      THEN FlatMap(SelectSeq(teams, LAMBDA t :
                       t.team_id = m.home_team_id /\ t.year = m.year), LAMBDA ht :
             Map(SelectSeq(teams, LAMBDA t :
                     t.team_id = m.away_team_id /\ t.year = m.year), LAMBDA at :
               [year |-> m.year, week |-> m.week,
                home_team_id |-> m.home_team_id, away_team_id |-> m.away_team_id,
                home_score |-> m.home_score, away_score |-> m.away_score,
                home_team_name |-> ht.team_name, home_owners |-> ht.owners,
                away_team_name |-> at.team_name, away_owners |-> at.owners]))
      ELSE <<>>)

\* the statement of a single year interpolates current_week: a NULL makes it
\* "m.week < None", which the database rejects; float(None) raises as well
StreakQueryRaises(year) ==
    \/ /\ YearGiven(year)
       /\ CurrentWeekData(year) # <<>>
       /\ IsNull(CurrentWeekData(year)[1].current_week)
    \/ LET matchups_data == StreakQuery(year)
       IN \E i \in 1..Len(matchups_data) :
             \/ IsNull(matchups_data[i].home_score)
             \/ IsNull(matchups_data[i].away_score)

\* owners_query of one matchup: the owners column of the last row found for the
\* team in the matchup's year, None when there is none
OwnersOf(year, team_id) ==
    LET owners_data == SelectSeq(teams, LAMBDA t : t.year = year /\ t.team_id = team_id)
    IN IF owners_data = <<>> THEN JsonNull ELSE owners_data[Len(owners_data)].owners

HomeOwner(matchup) ==
    _get_owner_name([team_id |-> matchup.home_team_id,
                     owners |-> OwnersOf(matchup.year, matchup.home_team_id)])

AwayOwner(matchup) ==
    _get_owner_name([team_id |-> matchup.away_team_id,
                     owners |-> OwnersOf(matchup.year, matchup.away_team_id)])

\* 'W' if score > opponent_score else 'L' if score < opponent_score else 'T'
GameResult(score, opponent_score) ==
    IF score > opponent_score THEN "W"
    ELSE IF score < opponent_score THEN "L" ELSE "T"

home_game(matchup) ==
    [year |-> matchup.year, week |-> matchup.week, owner |-> HomeOwner(matchup),
     team_name |-> matchup.home_team_name, opponent |-> AwayOwner(matchup),
     score |-> matchup.home_score, opponent_score |-> matchup.away_score,
     result |-> GameResult(matchup.home_score, matchup.away_score)]

away_game(matchup) ==
    [year |-> matchup.year, week |-> matchup.week, owner |-> AwayOwner(matchup),
     team_name |-> matchup.away_team_name, opponent |-> HomeOwner(matchup),
     score |-> matchup.away_score, opponent_score |-> matchup.home_score,
     result |-> GameResult(matchup.away_score, matchup.home_score)]

\* the keys of a dict filled in the order of games_list, in insertion order
RECURSIVE InsertionOrder(_, _)
InsertionOrder(owners, seen) ==
    IF owners = <<>> THEN <<>>
    ELSE IF Head(owners) \in seen THEN InsertionOrder(Tail(owners), seen)
    ELSE <<Head(owners)>> \o InsertionOrder(Tail(owners), seen \cup {Head(owners)})

\* owner_games as the list of its items: the home owner of a matchup is
\* inserted before the away owner, each list is then sorted by (year, week)
DbOwnerGames(matchups_data) ==
    LET games_list == FlatMap(matchups_data, LAMBDA mu : <<home_game(mu), away_game(mu)>>)
        keys == InsertionOrder(Map(games_list, LAMBDA g : g.owner), {})
    IN Map(keys, LAMBDA o :
           [owner |-> o,
            games |-> SortByYearWeek(SelectSeq(games_list, LAMBDA g : g.owner = o))])

\* streak_record of games[start_idx : start_idx + length] (0-based start_idx)
DbStreakRecord(owner, games, type, length, start_idx, is_current) ==
    LET streak_games == SubSeq(games, start_idx + 1, start_idx + length)
    IN [owner |-> owner, type |-> type, length |-> length,
        start_year |-> streak_games[1].year,
        start_week |-> streak_games[1].week,
        end_year |-> streak_games[Len(streak_games)].year,
        end_week |-> streak_games[Len(streak_games)].week,
        team_names |-> {streak_games[i].team_name : i \in 1..Len(streak_games)},
        games |-> streak_games,
        is_current |-> is_current]

\* the mutant of Decided: a tie takes part in the streaks
DecidedOrTie(result) == result \in {"W", "L", "T"}

\* if game['result'] in ['W', 'L']
Decided(result) == result \in {"W", "L"}

\* the mutant of ContinuesStreak: no game continues a streak
ContinuesNever(type, result) == FALSE

\* if current_streak_type == game['result']
ContinuesStreak(type, result) == type = result

\* one iteration of "for i, game in enumerate(games)" (i is 1-based here, the
\* index kept in start_idx is the 0-based one of the code)
DbLoopStep(st, owner, games, i) ==
    IF Decided(games[i].result)
    THEN IF ContinuesStreak(st.type, games[i].result)
         THEN [st EXCEPT !.length = @ + 1]
         ELSE LET rec == DbStreakRecord(owner, games, st.type, st.length,
                                        st.start_idx, FALSE)
                  closed ==
                      IF st.type # "None" /\ st.length > 0
                      THEN IF st.type = "W"
                           THEN [st EXCEPT !.owner_win_streaks = Append(@, rec)]
                           ELSE [st EXCEPT !.owner_loss_streaks = Append(@, rec)]
                      ELSE st
              IN [closed EXCEPT !.type = games[i].result, !.length = 1,
                                !.start_idx = i - 1]
    ELSE st

\* the loop over one owner's games and the handling of the final streak
DbOwnerStreaks(owner, games) ==
    LET st[i \in 0..Len(games)] ==
            IF i = 0
            THEN [type |-> "None", length |-> 0, start_idx |-> 0,
                  owner_win_streaks |-> <<>>, owner_loss_streaks |-> <<>>]
            ELSE DbLoopStep(st[i - 1], owner, games, i)
        end == st[Len(games)]
        final == DbStreakRecord(owner, games, end.type, end.length, end.start_idx, TRUE)
    IN IF end.type # "None" /\ end.length > 0
       THEN [owner_win_streaks |->
                 IF end.type = "W" THEN Append(end.owner_win_streaks, final)
                 ELSE end.owner_win_streaks,
             owner_loss_streaks |->
                 IF end.type = "W" THEN end.owner_loss_streaks
                 ELSE Append(end.owner_loss_streaks, final),
             final |-> <<final>>]
       ELSE [owner_win_streaks |-> end.owner_win_streaks,
             owner_loss_streaks |-> end.owner_loss_streaks,
             final |-> <<>>]

\* the mutant of SortByLength: the list in the order of discovery
SortByLengthNot(s) == s

\* list.sort(key=lambda x: x['length'], reverse=True): stable, longest first
RECURSIVE SortByLength(_)
SortByLength(s) ==
    IF s = <<>> THEN <<>>
    ELSE LET m == SetMax({s[i].length : i \in 1..Len(s)})
             i == SetMin({j \in 1..Len(s) : s[j].length = m})
         IN <<s[i]>> \o SortByLength(RemoveAt(s, i))

\* s[:5]
Top5(s) == SubSeq(s, 1, IF Len(s) < 5 THEN Len(s) ELSE 5)

\* SELECT DISTINCT owners FROM teams WHERE year = 2025, each row resolved by
\* _get_owner_name (the rows have no team_id)
DbActiveOwners ==
    {_get_owner_name([team_id |-> NULL, owners |-> teams[i].owners]) :
        i \in {j \in 1..Len(teams) : teams[j].year = CurrentYear}}

NoStreaks ==
    [analysis_type |-> "none", year |-> NULL, error |-> FALSE,
     owner_games |-> <<>>, win_streaks |-> <<>>, loss_streaks |-> <<>>,
     longest_win_streaks |-> <<>>, longest_loss_streaks |-> <<>>,
     current_streaks |-> <<>>, total_games_analyzed |-> 0]

\* the response of DatabaseAPI.get_streak_records(year), with the lists it is
\* cut from: owner_games and the sorted win_streaks and loss_streaks
DbStreakRecords(year) ==
    LET matchups_data == StreakQuery(year)
        owner_games == DbOwnerGames(matchups_data)
        per_owner == Map(owner_games, LAMBDA og : DbOwnerStreaks(og.owner, og.games))
        win_streaks == SortByLength(FlatMap(per_owner, LAMBDA p : p.owner_win_streaks))
        loss_streaks == SortByLength(FlatMap(per_owner, LAMBDA p : p.owner_loss_streaks))
        current_streaks ==
            IF YearGiven(year) THEN <<>>
            ELSE SelectSeq(FlatMap(per_owner, LAMBDA p : p.final), LAMBDA s :
                     s.length >= 3 /\ s.owner \in DbActiveOwners)
    IN IF StreakQueryRaises(year)
       THEN [NoStreaks EXCEPT !.analysis_type = "error", !.year = year, !.error = TRUE]
       ELSE [analysis_type |-> IF YearGiven(year) THEN "single_season" ELSE "all_time",
             year |-> year, error |-> FALSE,
             owner_games |-> owner_games,
             win_streaks |-> win_streaks, loss_streaks |-> loss_streaks,
             longest_win_streaks |-> Top5(win_streaks),
             longest_loss_streaks |-> Top5(loss_streaks),
             current_streaks |-> SortByLength(current_streaks),
             total_games_analyzed |-> Len(matchups_data)]

\* GET /streak-records answered from the database
DatabaseAPI_get_streak_records(year) ==
    /\ streak_db' = DbStreakRecords(year)
    /\ UNCHANGED <<espn, teams, matchups, box_scores, leagues, import_log,
                   luck_analysis_matchups, luck_analysis_seasons, live_luck,
                   streak_live, team_legacy, legacy_db, legacy_live,
                   exchange, lookup,
                   later>>

-----------------------------------------------------------------------------
(* app.py: get_streak_records, computed from the upstream API *)

\* any(home_score > 0 and away_score > 0 for matchup in matchups): true when a
\* completed game comes before any game whose comparison with 0 raises
HasCompletedGames(games) ==
    LET done == {i \in 1..Len(games) :
                    /\ ~IsNull(games[i].home_score) /\ games[i].home_score > 0
                    /\ ~IsNull(games[i].away_score) /\ games[i].away_score > 0}
        raising == {i \in 1..Len(games) :
                       \/ IsNull(games[i].home_score)
                       \/ games[i].home_score > 0 /\ IsNull(games[i].away_score)}
    IN done # {} /\ (raising = {} \/ SetMin(done) < SetMin(raising))

\* "W" if score > opponent_score else "L"
LiveResult(score, opponent_score) == IF score > opponent_score THEN "W" ELSE "L"

LiveGameRecord(year, week, team, score, opponent_score) ==
    [year |-> year, week |-> week, team_id |-> team.team_id,
     team_name |-> team.team_name, owner |-> LiveOwnerName(team),
     result |-> LiveResult(score, opponent_score),
     score |-> score, opponent_score |-> opponent_score]

\* the two appends of one matchup, each with whether building it raises
LiveMatchupAppends(year, week, g) ==
    << [raises |-> \/ IsNull(g.home_score) \/ IsNull(g.away_score)
                   \/ LiveOwnerRaises(TeamById(year, g.home_team_id)),
        team |-> TeamById(year, g.home_team_id),
        score |-> g.home_score, opponent_score |-> g.away_score],
       [raises |-> LiveOwnerRaises(TeamById(year, g.away_team_id)),
        team |-> TeamById(year, g.away_team_id),
        score |-> g.away_score, opponent_score |-> g.home_score] >>

\* what one week appends to all_games: nothing when box_scores raises or is
\* empty, nothing in the current year without a completed game, and otherwise
\* the records built before the first one that raises
LiveStreakWeekGames(year, week) ==
    LET r == WeekResponse(year, week)
        appends == FlatMap(r.games, LAMBDA g : LiveMatchupAppends(year, week, g))
        bad == {i \in 1..Len(appends) : appends[i].raises}
        kept == IF bad = {} THEN appends ELSE SubSeq(appends, 1, SetMin(bad) - 1)
    IN IF r.kind # "box" \/ r.games = <<>> THEN <<>>
       ELSE IF year = CurrentYear /\ ~HasCompletedGames(r.games) THEN <<>>
       ELSE Map(kept, LAMBDA a :
                LiveGameRecord(year, week, a.team, a.score, a.opponent_score))

\* years_to_analyze = [year] if year else available_years
YearsToAnalyze(year) == IF YearGiven(year) THEN <<year>> ELSE AvailableYears

\* all_games after all_games.sort(key=(year, week)); League(year) of a season
\* the upstream does not have raises and the year is skipped
LiveAllGames(year) ==
    SortByYearWeek(
        FlatMap(YearsToAnalyze(year), LAMBDA y :
            IF y \in DOMAIN espn
            THEN FlatMap(WeeksOf(y), LAMBDA w : LiveStreakWeekGames(y, w))
            ELSE <<>>))

\* owner_games as the list of its items, in insertion order
LiveOwnerGames(all_games) ==
    LET keys == InsertionOrder(Map(all_games, LAMBDA g : g.owner), {})
    IN Map(keys, LAMBDA o :
           [owner |-> o, games |-> SelectSeq(all_games, LAMBDA g : g.owner = o)])

\* streak_data; the key is_current is only set on the last streak, and
\* streak.get("is_current") of a record without it is falsy
LiveStreakData(owner, current_streak, is_current) ==
    [owner |-> owner,
     team_names |-> {current_streak.games[i].team_name :
                        i \in 1..Len(current_streak.games)},
     length |-> current_streak.length,
     start_year |-> current_streak.games[1].year,
     start_week |-> current_streak.games[1].week,
     end_year |-> current_streak.games[Len(current_streak.games)].year,
     end_week |-> current_streak.games[Len(current_streak.games)].week,
     games |-> current_streak.games,
     is_current |-> is_current]

\* one iteration of "for game in games"
LiveLoopStep(st, owner, game) ==
    IF st.current_streak.type = game.result
    THEN [st EXCEPT !.current_streak.length = @ + 1,
                    !.current_streak.games = Append(@, game)]
    ELSE LET streak_data == LiveStreakData(owner, st.current_streak, FALSE)
             closed ==
                 IF st.current_streak.type # "None" /\ st.current_streak.length > 0
                 THEN IF st.current_streak.type = "W"
                      THEN [st EXCEPT !.win_streaks = Append(@, streak_data)]
                      ELSE [st EXCEPT !.loss_streaks = Append(@, streak_data)]
                 ELSE st
         IN [closed EXCEPT !.current_streak =
                 [type |-> game.result, length |-> 1, games |-> <<game>>]]

\* the loop over one owner's games and "Don't forget the last streak"
LiveOwnerStreaks(owner, games) ==
    LET st[i \in 0..Len(games)] ==
            IF i = 0
            THEN [current_streak |-> [type |-> "None", length |-> 0, games |-> <<>>],
                  win_streaks |-> <<>>, loss_streaks |-> <<>>]
            ELSE LiveLoopStep(st[i - 1], owner, games[i])
        end == st[Len(games)]
        last == LiveStreakData(owner, end.current_streak, TRUE)
    IN IF end.current_streak.type # "None" /\ end.current_streak.length > 0
       THEN [win_streaks |->
                 IF end.current_streak.type = "W" THEN Append(end.win_streaks, last)
                 ELSE end.win_streaks,
             loss_streaks |->
                 IF end.current_streak.type = "W" THEN end.loss_streaks
                 ELSE Append(end.loss_streaks, last),
             current |-> <<last>>]
       ELSE [win_streaks |-> end.win_streaks, loss_streaks |-> end.loss_streaks,
             current |-> <<>>]

\* current_owners of the all-time query, from League(2025).teams
LiveCurrentOwners ==
    {LiveOwnerName(LeagueTeams(CurrentYear)[i]) :
        i \in 1..Len(LeagueTeams(CurrentYear))}

\* building current_owners raises: the handler answers HTTP 500
LiveStreakRaises(year) ==
    /\ ~YearGiven(year)
    /\ \E i \in 1..Len(LeagueTeams(CurrentYear)) :
          LiveOwnerRaises(LeagueTeams(CurrentYear)[i])

\* the response of GET /streak-records (app.py), with the lists it is cut from
LiveStreakRecords(year) ==
    LET all_games == LiveAllGames(year)
        owner_games == LiveOwnerGames(all_games)
        per_owner == Map(owner_games, LAMBDA og : LiveOwnerStreaks(og.owner, og.games))
        win_streaks == SortByLength(FlatMap(per_owner, LAMBDA p : p.win_streaks))
        loss_streaks == SortByLength(FlatMap(per_owner, LAMBDA p : p.loss_streaks))
        filtered_current_streaks ==
            IF YearGiven(year) THEN <<>>
            ELSE SelectSeq(FlatMap(per_owner, LAMBDA p : p.current), LAMBDA s :
                     s.is_current /\ s.owner \in LiveCurrentOwners /\ s.length >= 3)
    IN IF LiveStreakRaises(year)
       THEN [NoStreaks EXCEPT !.analysis_type = "error", !.year = year, !.error = TRUE]
       ELSE [analysis_type |-> IF YearGiven(year) THEN "single_season" ELSE "all_time",
             year |-> year, error |-> FALSE,
             owner_games |-> owner_games,
             win_streaks |-> win_streaks, loss_streaks |-> loss_streaks,
             longest_win_streaks |-> Top5(win_streaks),
             longest_loss_streaks |-> Top5(loss_streaks),
             current_streaks |-> filtered_current_streaks,
             total_games_analyzed |-> Len(all_games)]

get_streak_records(year) ==
    /\ streak_live' = LiveStreakRecords(year)
    /\ UNCHANGED <<espn, teams, matchups, box_scores, leagues, import_log,
                   luck_analysis_matchups, luck_analysis_seasons, live_luck,
                   streak_db, team_legacy, legacy_db, legacy_live,
                   exchange, lookup,
                   later>>

-----------------------------------------------------------------------------
(* db_api.py: DatabaseAPI.get_team_legacy *)

\* the positions of keys from the smallest key to the largest, equal keys in
\* their order (the order list.sort and ORDER BY over rowid order give)
RECURSIVE StableOrder(_, _)
StableOrder(keys, remaining) ==
    IF remaining = {} THEN <<>>
    ELSE LET m == SetMin({keys[i] : i \in remaining})
             i == SetMin({j \in remaining : keys[j] = m})
         IN <<i>> \o StableOrder(keys, remaining \ {i})

SortedBy(s, keys) == Map(StableOrder(keys, 1..Len(s)), LAMBDA i : s[i])

\* float('inf') of the sort keys: above every average placement in hundredths
Infinity == 1000000

NoLegacy == [status |-> "none", total_teams |-> 0, years_analyzed |-> <<>>,
             team_legacy |-> <<>>]

\* SELECT ... FROM teams t ORDER BY t.year, t.team_id
LegacyTeamsQuery == SortedBy(teams, Map(teams, LAMBDA t : t.year * 100 + t.team_id))

\* SELECT DISTINCT year FROM teams ORDER BY year DESC
DbAvailableYears == Descending({teams[i].year : i \in 1..Len(teams)})

\* final_standing if final_standing and final_standing > 0 else standing
DbPlacement(team) ==
    IF ~IsNull(team.final_standing) /\ team.final_standing > 0
    THEN team.final_standing ELSE team.standing

\* the years of the rows of an owner whose placement is the given one
YearsPlaced(placements, place) ==
    Map(SelectSeq(placements, LAMBDA p : p.placement = place), LAMBDA p : p.year)

\* team_names sorted by year, newest first, then the names without repeats
UniqueNames(team_names) ==
    InsertionOrder(Map(SortedBy(team_names, Map(team_names, LAMBDA n : 0 - n.year)),
                       LAMBDA n : n.name), {})

\* completed_placements = [p for p in placements if p["year"] < 2025]
DbCompletedPlacements(placements) ==
    SelectSeq(placements, LAMBDA p : p.year < CurrentYear)

\* gap_years over range(min(available_years), max(available_years) + 1)
DbGapYears(years_active) ==
    IF DbAvailableYears # <<>>
    THEN Descending((SetMin(Range(DbAvailableYears))..SetMax(Range(DbAvailableYears)))
                        \ Range(years_active))
    ELSE <<>>

\* the entry of legacy_rankings of one owner, from the owner's rows in order
DbLegacyRecord(owner_name, rows) ==
    LET team_names == Map(rows, LAMBDA t : [name |-> t.team_name, year |-> t.year])
        years_active == Map(rows, LAMBDA t : t.year)
        placements == Map(rows, LAMBDA t : [year |-> t.year, placement |-> DbPlacement(t)])
        total_wins == SumSeq(Map(rows, LAMBDA t : t.wins))
        total_losses == SumSeq(Map(rows, LAMBDA t : t.losses))
        total_ties == SumSeq(Map(rows, LAMBDA t : t.ties))
        total_points_for == SumSeq(Map(rows, LAMBDA t : t.points_for))
        total_points_against == SumSeq(Map(rows, LAMBDA t : t.points_against))
        championship_years == YearsPlaced(placements, 1)
        runner_up_years == YearsPlaced(placements, 2)
        third_place_years == YearsPlaced(placements, 3)
        total_games == total_wins + total_losses + total_ties
        unique_names == UniqueNames(team_names)
        completed_placements == DbCompletedPlacements(placements)
    IN [owner |-> owner_name,
        team_names |-> SortedBy(team_names, Map(team_names, LAMBDA n : 0 - n.year)),
        years_active |-> years_active,
        placements |-> placements,
        championship_years |-> championship_years,
        runner_up_years |-> runner_up_years,
        third_place_years |-> third_place_years,
        total_wins |-> total_wins, total_losses |-> total_losses,
        total_ties |-> total_ties,
        total_points_for |-> total_points_for,
        total_points_against |-> total_points_against,
        seasons_played |-> Len(rows),
        completed_seasons |-> Len(SelectSeq(rows, LAMBDA t : t.year < CurrentYear)),
        championships |-> Len(championship_years),
        runner_ups |-> Len(runner_up_years),
        third_places |-> Len(third_place_years),
        legacy_score |-> Len(championship_years) * 50 + Len(runner_up_years) * 30
                            + Len(third_place_years) * 15 + total_wins,
        \* round(total_wins / total_games * 100, 1), in tenths
        win_percentage |-> IF total_games > 0
                           THEN RoundDiv(total_wins * 1000, total_games) ELSE 0,
        \* round(total_points_for / total_games, 2), in hundredths
        avg_points_per_game |-> IF total_games > 0
                                THEN RoundDiv(total_points_for, total_games) ELSE 0,
        total_games |-> total_games,
        current_team_name |-> IF unique_names # <<>> THEN unique_names[1]
                              ELSE <<"Unknown">>,
        aka_names |-> Tail(unique_names),
        has_placement_history |-> completed_placements # <<>>,
        \* round(sum / len, 2), in hundredths; None without completed seasons
        average_placement |->
            IF completed_placements # <<>>
            THEN RoundDiv(100 * SumSeq(Map(completed_placements,
                                           LAMBDA p : p.placement)),
                          Len(completed_placements))
            ELSE NULL,
        gap_years |-> DbGapYears(years_active)]

\* the mutant of DbLegacySortKey: every owner has the same key
DbLegacySortKeyNot(r) == 0

\* key=lambda x: (not has_placement_history, average_placement or float('inf'))
DbLegacySortKey(r) ==
    (IF r.has_placement_history THEN 0 ELSE 2 * Infinity)
    + (IF IsNull(r.average_placement) \/ r.average_placement = 0
       THEN Infinity ELSE r.average_placement)

\* an addition or a sum meets None: the handler answers {"error": ...}
DbLegacyRaises ==
    \E i \in 1..Len(teams) :
        \/ IsNull(teams[i].wins) \/ IsNull(teams[i].losses) \/ IsNull(teams[i].ties)
        \/ IsNull(teams[i].points_for) \/ IsNull(teams[i].points_against)
        \/ teams[i].year < CurrentYear /\ IsNull(DbPlacement(teams[i]))

DbTeamLegacy ==
    LET teams_data == LegacyTeamsQuery
        owner_of == Map(teams_data, LAMBDA t : _get_owner_name(t))
        owners == InsertionOrder(owner_of, {})
        legacy_rankings ==
            Map(owners, LAMBDA o :
                DbLegacyRecord(o, Map(SelectSeq([i \in 1..Len(teams_data) |-> i],
                                                LAMBDA i : owner_of[i] = o),
                                      LAMBDA i : teams_data[i])))
    IN IF DbLegacyRaises THEN [NoLegacy EXCEPT !.status = "error"]
       ELSE [status |-> "ok",
             total_teams |-> Len(legacy_rankings),
             years_analyzed |-> DbAvailableYears,
             team_legacy |-> SortedBy(legacy_rankings,
                                      Map(legacy_rankings, DbLegacySortKey))]

\* GET /team-legacy answered from the database
DatabaseAPI_get_team_legacy ==
    /\ legacy_db' = DbTeamLegacy
    /\ UNCHANGED <<espn, teams, matchups, box_scores, leagues, import_log,
                   luck_analysis_matchups, luck_analysis_seasons, live_luck,
                   streak_db, streak_live, team_legacy, legacy_live,
                   exchange, lookup,
                   later>>

-----------------------------------------------------------------------------
(* update_database.py: DatabaseUpdater.recalculate_team_legacy *)

TeamLegacyKey == <<"owner_name">>

\* value or 0
OrZero(v) == IF IsNull(v) THEN 0 ELSE v

\* final_standing = row['final_standing'] or row['standing']
RecalcStanding(row) ==
    IF ~IsNull(row.final_standing) /\ row.final_standing # 0
    THEN row.final_standing ELSE row.standing

\* the placements appended for an owner: "if final_standing:"
RecalcPlacements(rows) ==
    Map(SelectSeq(rows, LAMBDA r : ~IsNull(RecalcStanding(r)) /\ RecalcStanding(r) # 0),
        RecalcStanding)

\* legacy_record of one owner; average_placement is the quotient
\* sum(placements) / len(placements), kept as <<sum, len>>, and 0 without any
RecalcLegacyRecord(owner, rows) ==
    LET placements == RecalcPlacements(rows)
    IN [owner_name |-> owner,
        team_names |-> JsonDumps({rows[i].team_name : i \in 1..Len(rows)}),
        total_seasons |-> Len(rows),
        championships |-> Len(SelectSeq(placements, LAMBDA p : p = 1)),
        total_wins |-> SumSeq(Map(rows, LAMBDA r : OrZero(r.wins))),
        total_losses |-> SumSeq(Map(rows, LAMBDA r : OrZero(r.losses))),
        total_ties |-> SumSeq(Map(rows, LAMBDA r : OrZero(r.ties))),
        total_points |-> SumSeq(Map(rows, LAMBDA r : OrZero(r.points_for))),
        average_placement |-> IF placements # <<>>
                              THEN <<SumSeq(placements), Len(placements)>>
                              ELSE <<0, 1>>,
        best_season_placement |-> IF placements # <<>>
                                  THEN SetMin(Range(placements)) ELSE NULL,
        worst_season_placement |-> IF placements # <<>>
                                   THEN SetMax(Range(placements)) ELSE NULL,
        years_participated |-> JsonDumps(Map(rows, LAMBDA r : r.year))]

\* final_legacy_data, from SELECT ... FROM teams ORDER BY year
RecalcLegacyData ==
    LET teams_data == SortedBy(teams, Map(teams, LAMBDA t : t.year))
        owner_of == Map(teams_data, LAMBDA t : RecalcOwnerName(t.owners, t.team_id))
        owners == InsertionOrder(owner_of, {})
    IN Map(owners, LAMBDA o :
           RecalcLegacyRecord(o, Map(SelectSeq([i \in 1..Len(teams_data) |-> i],
                                               LAMBDA i : owner_of[i] = o),
                                     LAMBDA i : teams_data[i])))

\* DELETE FROM team_legacy, then the bulk insert of final_legacy_data
RecalcLegacyTable == ExecuteManyInserts(<<>>, RecalcLegacyData, TeamLegacyKey)

recalculate_team_legacy ==
    /\ team_legacy' = RecalcLegacyTable
    /\ UNCHANGED <<espn, teams, matchups, box_scores, leagues, import_log,
                   luck_analysis_matchups, luck_analysis_seasons, live_luck,
                   streak_db, streak_live, legacy_db, legacy_live,
                   exchange, lookup,
                   later>>

-----------------------------------------------------------------------------
(* app.py: get_team_legacy, computed from the upstream API *)

\* the teams of one year the loop handles: those before the first one whose
\* owner expression raises
LiveLegacyTeams(year) ==
    LET ts == LeagueTeams(year)
        bad == {i \in 1..Len(ts) : LiveOwnerRaises(ts[i])}
    IN IF bad = {} THEN ts ELSE SubSeq(ts, 1, SetMin(bad) - 1)

\* the teams handled over available_years, newest year first, each with its year
LiveLegacyEntries ==
    FlatMap(AvailableYears, LAMBDA y :
        Map(LiveLegacyTeams(y), LAMBDA t : [year |-> y, team |-> t]))

\* team.final_standing if team.final_standing > 0 else team.standing
LivePlacement(team) ==
    IF team.final_standing > 0 THEN team.final_standing ELSE team.standing

\* gap_years over the completed years only
LiveGapYears(years_active) ==
    LET completed_years == {y \in Range(AvailableYears) : y < CurrentYear}
    IN IF completed_years # {}
       THEN Descending((SetMin(completed_years)..SetMax(completed_years))
                           \ {y \in Range(years_active) : y < CurrentYear})
       ELSE <<>>

\* the entry of legacy_rankings of one owner, from the owner's entries in order
LiveLegacyRecord(owner, entries) ==
    LET team_names == Map(entries, LAMBDA e : [name |-> e.team.team_name, year |-> e.year])
        years_active == Map(entries, LAMBDA e : e.year)
        placements == Map(entries, LAMBDA e :
                          [year |-> e.year, placement |-> LivePlacement(e.team)])
        total_wins == SumSeq(Map(entries, LAMBDA e : e.team.wins))
        total_losses == SumSeq(Map(entries, LAMBDA e : e.team.losses))
        total_ties == SumSeq(Map(entries, LAMBDA e : e.team.ties))
        total_points_for == SumSeq(Map(entries, LAMBDA e : e.team.points_for))
        total_points_against == SumSeq(Map(entries, LAMBDA e : e.team.points_against))
        total_games == total_wins + total_losses + total_ties
        unique_names == UniqueNames(team_names)
        completed_placements == SelectSeq(placements, LAMBDA p : p.year < CurrentYear)
    IN [owner |-> owner,
        team_names |-> SortedBy(team_names, Map(team_names, LAMBDA n : 0 - n.year)),
        years_active |-> SortedBy(years_active, Map(years_active, LAMBDA y : 0 - y)),
        placements |-> placements,
        total_wins |-> total_wins, total_losses |-> total_losses,
        total_ties |-> total_ties,
        total_points_for |-> total_points_for,
        total_points_against |-> total_points_against,
        seasons_played |-> Len(entries),
        championship_years |-> YearsPlaced(placements, 1),
        runner_up_years |-> YearsPlaced(placements, 2),
        third_place_years |-> YearsPlaced(placements, 3),
        \* round(sum / len, 2), in hundredths; None without completed seasons
        average_placement |->
            IF completed_placements # <<>>
            THEN RoundDiv(100 * SumSeq(Map(completed_placements,
                                           LAMBDA p : p.placement)),
                          Len(completed_placements))
            ELSE NULL,
        has_placement_history |-> completed_placements # <<>>,
        completed_seasons |-> Len(completed_placements),
        \* round(total_wins / total_games * 100, 1), in tenths
        win_percentage |-> IF total_games > 0
                           THEN RoundDiv(total_wins * 1000, total_games) ELSE 0,
        \* round(total_points_for / seasons_played, 1), in tenths
        avg_points_per_game |-> RoundDiv(total_points_for, 10 * Len(entries)),
        championships |-> Len(YearsPlaced(placements, 1)),
        runner_ups |-> Len(YearsPlaced(placements, 2)),
        third_places |-> Len(YearsPlaced(placements, 3)),
        gap_years |-> LiveGapYears(years_active),
        current_team_name |-> IF unique_names # <<>> THEN unique_names[1]
                              ELSE <<"Unknown">>,
        aka_names |-> Tail(unique_names),
        years_in_league |-> Len(years_active),
        total_years_available |-> Len(AvailableYears)]

\* key=lambda x: (average_placement is None, average_placement or float('inf'))
LiveLegacySortKey(r) ==
    IF IsNull(r.average_placement) THEN 3 * Infinity
    ELSE IF r.average_placement = 0 THEN Infinity
    ELSE r.average_placement

LiveTeamLegacy ==
    LET entries == LiveLegacyEntries
        owner_of == Map(entries, LAMBDA e : LiveOwnerName(e.team))
        owners == InsertionOrder(owner_of, {})
        legacy_rankings ==
            Map(owners, LAMBDA o :
                LiveLegacyRecord(o, Map(SelectSeq([i \in 1..Len(entries) |-> i],
                                                  LAMBDA i : owner_of[i] = o),
                                        LAMBDA i : entries[i])))
    IN [status |-> "ok",
        total_teams |-> Len(legacy_rankings),
        years_analyzed |-> AvailableYears,
        team_legacy |-> SortedBy(legacy_rankings,
                                 Map(legacy_rankings, LiveLegacySortKey))]

get_team_legacy ==
    /\ legacy_live' = LiveTeamLegacy
    /\ UNCHANGED <<espn, teams, matchups, box_scores, leagues, import_log,
                   luck_analysis_matchups, luck_analysis_seasons, live_luck,
                   streak_db, streak_live, team_legacy, legacy_db,
                   exchange, lookup,
                   later>>

-----------------------------------------------------------------------------
(* The luck specification: one in-progress season of two teams, imported and
   analysed by the three luck paths *)

LuckTeams ==
    << [team_id |-> 1, team_name |-> <<"Team A">>,
        owners |-> << [id |-> "{B5FBB7B7-C134-4B6B-BBB7-B7C1343B6BCF}",
                       firstName |-> <<"Ann">>, lastName |-> <<"Lee">>,
                       displayName |-> <<"ann1">>] >>,
        wins |-> 0, losses |-> 0, ties |-> 0,
        points_for |-> 0, points_against |-> 0, standing |-> 1, final_standing |-> 0],
       [team_id |-> 2, team_name |-> <<"Team B">>,
        owners |-> << [id |-> "{247150F3-5E23-403B-B150-F35E23603B86}",
                       displayName |-> <<"bob2">>] >>,
        wins |-> 0, losses |-> 0, ties |-> 0,
        points_for |-> 0, points_against |-> 0, standing |-> 2, final_standing |-> 0] >>

\* the schedule: team 1 is at home in the odd weeks, team 2 in the even ones
HomeIn(week) == IF week % 2 = 1 THEN 1 ELSE 2
AwayIn(week) == 3 - HomeIn(week)

Game(week, hs, as, hp, ap) ==
    [home_team_id |-> HomeIn(week), away_team_id |-> AwayIn(week),
     home_score |-> hs, away_score |-> as,
     home_projected |-> hp, away_projected |-> ap]

LuckAnswers ==
    {[kind |-> "box", hs |-> hs, hp |-> hp, ap |-> ap] :
        hs \in {0, 3}, hp \in {NULL, 0, 1}, ap \in {0, 1}}
    \cup {[kind |-> "scoreboard", hs |-> hs, hp |-> NULL, ap |-> NULL] :
             hs \in {0, 3}}
    \cup {[kind |-> "fail", hs |-> 0, hp |-> NULL, ap |-> NULL]}

LuckWeekResponse(week, answer) ==
    [kind |-> answer.kind,
     games |-> IF answer.kind = "fail" THEN <<>>
               ELSE <<Game(week, answer.hs, 2, answer.hp, answer.ap)>>]

\* the weeks 1..n of a season, week k answered by Response(k, answers[k])
SeasonWeeks(n, answers, Response(_, _)) ==
    LET f[k \in 0..n] ==
            IF k = 0 THEN <<>>
            ELSE Append(f[k - 1], Response(k, answers[k]))
    IN f[n]

LuckSeason(n, answers) ==
    [teams |-> LuckTeams, current_week |-> n,
     weeks |-> SeasonWeeks(n, answers, LuckWeekResponse)]

NoLiveLuck == [single_matchup_luck |-> <<>>, season_luck_data |-> <<>>]

InitLuck ==
    /\ \E n \in 0..MaxWeek : \E answers \in [1..n -> LuckAnswers] :
           espn = CurrentYear :> LuckSeason(n, answers)
    /\ teams = <<>>
    /\ matchups = <<>>
    /\ box_scores = <<>>
    /\ leagues = <<>>
    /\ import_log = <<>>
    /\ luck_analysis_matchups = <<>>
    /\ luck_analysis_seasons = <<>>
    /\ live_luck = NoLiveLuck
    /\ streak_db = NoStreaks
    /\ streak_live = NoStreaks
    /\ team_legacy = <<>>
    /\ legacy_db = NoLegacy
    /\ legacy_live = NoLegacy
    /\ exchange = NoExchange
    /\ lookup = NoLookup
    /\ InitLater

NextLuck ==
    \/ ImportAllData
    \/ populate_luck_analysis
    \/ recalculate_luck_analysis
    \/ get_luck_analysis

SpecLuck == InitLuck /\ [][NextLuck]_vars

-----------------------------------------------------------------------------
(* Properties of the luck paths and of the importer *)

\* the rows of a table that describe the other side of the matchup of row r
Opposite(rows, r) ==
    SelectSeq(rows, LAMBDA o :
        /\ o.year = r.year /\ o.week = r.week
        /\ o.team_id = r.opponent_team_id /\ o.opponent_team_id = r.team_id)

LiveOpposite(rows, r) ==
    SelectSeq(rows, LAMBDA o :
        /\ o.year = r.year /\ o.week = r.week
        /\ o.team_name = r.opponent /\ o.opponent = r.team_name)

\* C1: in the luck tables and in the live response, every recorded side of a
\* matchup has exactly one opposite side, and the two luck values sum to 0
C1_LuckZeroSum ==
    /\ \A i \in 1..Len(luck_analysis_matchups) :
          LET r == luck_analysis_matchups[i]
              o == Opposite(luck_analysis_matchups, r)
          IN Len(o) = 1 /\ r.luck_points + o[1].luck_points = 0
    /\ \A i \in 1..Len(live_luck.single_matchup_luck) :
          LET r == live_luck.single_matchup_luck[i]
              o == LiveOpposite(live_luck.single_matchup_luck, r)
          IN Len(o) = 1 /\ r.luck + o[1].luck = 0

\* rows of populate_luck_analysis (it names owners by first and last name) and
\* live rows, both with a luck that is not 0
C1_Witness ==
    /\ \E i \in 1..Len(luck_analysis_matchups) :
          /\ luck_analysis_matchups[i].luck_points # 0
          /\ luck_analysis_matchups[i].owner_name = <<"Ann", "Lee">>
    /\ \E i \in 1..Len(live_luck.single_matchup_luck) :
          live_luck.single_matchup_luck[i].luck # 0

\* a projected score that is missing: stored as NULL or as 0
Missing(p) == IsNull(p) \/ p = 0

MissingProjection(g) == Missing(g.home_projected) \/ Missing(g.away_projected)

\* the games the upstream API serves with box scores
UpstreamGames ==
    FlatMap(AvailableYears, LAMBDA y :
        FlatMap(WeeksOf(y), LAMBDA w :
            IF WeekResponse(y, w).kind = "box"
            THEN Map(WeekResponse(y, w).games, LAMBDA g : BoxScoreRow(y, w, g))
            ELSE <<>>))

\* the games of a team in a season whose projections are both present
ValidGames(games, year, team_id) ==
    {i \in 1..Len(games) :
        /\ games[i].year = year
        /\ team_id \in {games[i].home_team_id, games[i].away_team_id}
        /\ ~MissingProjection(games[i])}

\* C2: a matchup with a missing projected score has no row in
\* luck_analysis_matchups and none in the live response, and every team-season
\* aggregate counts only the games with both projections
C2_MissingProjectionExcluded ==
    /\ \A i \in 1..Len(box_scores) :
          MissingProjection(box_scores[i]) =>
              \A j \in 1..Len(luck_analysis_matchups) :
                  ~(/\ luck_analysis_matchups[j].year = box_scores[i].year
                    /\ luck_analysis_matchups[j].week = box_scores[i].week)
    /\ \A i \in 1..Len(luck_analysis_seasons) :
          luck_analysis_seasons[i].games_played =
              Cardinality(ValidGames(box_scores, luck_analysis_seasons[i].year,
                                     luck_analysis_seasons[i].team_id))
    /\ \A i \in 1..Len(UpstreamGames) :
          MissingProjection(UpstreamGames[i]) =>
              \A j \in 1..Len(live_luck.single_matchup_luck) :
                  ~(/\ live_luck.single_matchup_luck[j].year = UpstreamGames[i].year
                    /\ live_luck.single_matchup_luck[j].week = UpstreamGames[i].week)
    /\ \A i \in 1..Len(live_luck.season_luck_data) :
          live_luck.season_luck_data[i].games_played =
              Cardinality(ValidGames(UpstreamGames, live_luck.season_luck_data[i].year,
                                     live_luck.season_luck_data[i].team_id))

\* C9: once a full import has run, the tables teams, matchups and box_scores
\* hold the rows of the first import, however many imports have run since
C9_ReimportSameRows ==
    Len(import_log) >= 1 => Db = import_all_data(EmptyDb)

\* two imports have run over a season with box scores
C9_Witness ==
    /\ Len(import_log) = 2
    /\ box_scores # <<>>
    /\ matchups # <<>>
    /\ teams # <<>>

LuckInputs == {0, 1, 2, 3}

-----------------------------------------------------------------------------
(* The streak specification: an in-progress season of two teams that meet
   every week, already imported, queried through both streak detectors *)

\* a completed week: the home team wins, ties or loses against 2 points
CompletedWeek(week, hs) ==
    [kind |-> "box", games |-> <<Game(week, hs, 2, 1, 1)>>]

\* the home scores of a completed week: a loss, a tie, a win against 2
HomeScores == {1, 2, 3}

\* the week in progress: no points scored yet
WeekInProgress(week) == [kind |-> "box", games |-> <<Game(week, 0, 0, 1, 1)>>]

\* the season after n completed weeks, week k won, tied or lost by its home team
StreakSeason(n, home_scores) ==
    [teams |-> LuckTeams, current_week |-> n + 1,
     weeks |-> Append(SeasonWeeks(n, home_scores, CompletedWeek),
                      WeekInProgress(n + 1))]

\* the year of the request: None (all-time) or the current season
StreakYears == {NULL, CurrentYear}

InitStreak ==
    /\ \E n \in 0..MaxGames : \E home_scores \in [1..n -> HomeScores] :
           espn = CurrentYear :> StreakSeason(n, home_scores)
    /\ LET db == import_all_data(EmptyDb)
       IN /\ teams = db.teams
          /\ matchups = db.matchups
          /\ box_scores = db.box_scores
          /\ leagues = db.leagues
    /\ import_log = <<[import_type |-> "full", table_name |-> "all_tables",
                       status |-> "completed"]>>
    /\ luck_analysis_matchups = <<>>
    /\ luck_analysis_seasons = <<>>
    /\ live_luck = NoLiveLuck
    /\ streak_db = NoStreaks
    /\ streak_live = NoStreaks
    /\ team_legacy = <<>>
    /\ legacy_db = NoLegacy
    /\ legacy_live = NoLegacy
    /\ exchange = NoExchange
    /\ lookup = NoLookup
    /\ InitLater

NextStreak ==
    \/ \E year \in StreakYears : DatabaseAPI_get_streak_records(year)
    \/ \E year \in StreakYears : get_streak_records(year)

SpecStreak == InitStreak /\ [][NextStreak]_vars

-----------------------------------------------------------------------------
(* Properties of the streak detectors *)

\* what a game was for its owner, from the two scores
Outcome(game) == GameResult(game.score, game.opponent_score)
Outcomes(games) == [i \in 1..Len(games) |-> Outcome(games[i])]

\* the responses computed so far
StreakResponses == {r \in {streak_db, streak_live} : r.analysis_type # "none"}

\* the streaks a response holds for an owner, each with the list it is in
Emitted(resp, owner) ==
    {[list |-> "W", streak |-> resp.win_streaks[i]] :
        i \in {j \in 1..Len(resp.win_streaks) : resp.win_streaks[j].owner = owner}}
    \cup {[list |-> "L", streak |-> resp.loss_streaks[i]] :
        i \in {j \in 1..Len(resp.loss_streaks) : resp.loss_streaks[j].owner = owner}}

StartOf(streak) == streak.start_year * 100 + streak.start_week
EndOf(streak) == streak.end_year * 100 + streak.end_week

\* the maximal runs of equal outcomes, as pairs <<first, last>> of positions
MaximalRuns(res) ==
    {p \in (1..Len(res)) \X (1..Len(res)) :
        /\ p[1] <= p[2]
        /\ \A k \in p[1]..p[2] : res[k] = res[p[1]]
        /\ p[1] = 1 \/ res[p[1] - 1] # res[p[1]]
        /\ p[2] = Len(res) \/ res[p[2] + 1] # res[p[1]]}

\* the streaks the games of an owner call for: the maximal runs of W and of L
ExpectedStreaks(games) ==
    {[type |-> Outcome(games[p[1]]), length |-> p[2] - p[1] + 1,
      start |-> YearWeek(games[p[1]]), end |-> YearWeek(games[p[2]])] :
        p \in {q \in MaximalRuns(Outcomes(games)) :
                  Outcome(games[q[1]]) \in {"W", "L"}}}

ReportedStreaks(resp, owner) ==
    {[type |-> e.list, length |-> e.streak.length,
      start |-> StartOf(e.streak), end |-> EndOf(e.streak)] :
        e \in Emitted(resp, owner)}

\* C3: for each owner's games in chronological order, the reported streaks are
\* exactly the maximal runs of consecutive W or of consecutive L results (a tie
\* ends a run: W, W, T, W gives a win streak of 2 and one of 1), and no game of
\* a reported streak is a tie
C3_StreaksAreMaximalRuns ==
    \A resp \in StreakResponses : \A k \in 1..Len(resp.owner_games) :
        LET og == resp.owner_games[k]
        IN /\ ReportedStreaks(resp, og.owner) = ExpectedStreaks(og.games)
           /\ \A e \in Emitted(resp, og.owner) :
                 \A i \in 1..Len(e.streak.games) :
                    Outcome(e.streak.games[i]) # "T"

\* the reported streaks of an owner from the oldest to the newest
RECURSIVE Chronological(_)
Chronological(S) ==
    IF S = {} THEN <<>>
    ELSE LET first == CHOOSE e \in S :
                         \A f \in S : StartOf(e.streak) <= StartOf(f.streak)
         IN <<[type |-> first.list, length |-> first.streak.length,
               is_current |-> first.streak.is_current]>>
            \o Chronological(S \ {first})

\* the runs of a result sequence in order, as <<type, length>> records
RECURSIVE RunList(_)
RunList(res) ==
    IF res = <<>> THEN <<>>
    ELSE LET k == SetMax({j \in 1..Len(res) : \A i \in 1..j : res[i] = res[1]})
         IN <<[type |-> res[1], length |-> k]>> \o RunList(SubSeq(res, k + 1, Len(res)))

\* the runs in order, the last one marked current
RunsLastCurrent(res) ==
    LET runs == RunList(res)
    IN [i \in 1..Len(runs) |->
           [type |-> runs[i].type, length |-> runs[i].length,
            is_current |-> i = Len(runs)]]

TieFree(games) == \A i \in 1..Len(games) : Outcome(games[i]) # "T"

\* C4: for a tie-free result sequence of an owner, both detectors emit one
\* streak per maximal run, in chronological order, only the last one marked
\* current, and the lengths add up to the number of games
C4_TieFreeOneStreakPerRun ==
    \A resp \in StreakResponses : \A k \in 1..Len(resp.owner_games) :
        LET og == resp.owner_games[k]
            emitted == Chronological(Emitted(resp, og.owner))
        IN TieFree(og.games) =>
              /\ emitted = RunsLastCurrent(Outcomes(og.games))
              /\ SumSeq([i \in 1..Len(emitted) |-> emitted[i].length]) = Len(og.games)

\* an owner with the results W, W, L, W, W, W has, in both responses, the
\* streaks 2 (W), 1 (L) and 3 (W), the last one current
C4_Witness ==
    /\ StreakResponses = {streak_db, streak_live}
    /\ streak_db # streak_live
    /\ \A resp \in StreakResponses : \E k \in 1..Len(resp.owner_games) :
          /\ Outcomes(resp.owner_games[k].games) = <<"W", "W", "L", "W", "W", "W">>
          /\ Chronological(Emitted(resp, resp.owner_games[k].owner))
                = << [type |-> "W", length |-> 2, is_current |-> FALSE],
                     [type |-> "L", length |-> 1, is_current |-> FALSE],
                     [type |-> "W", length |-> 3, is_current |-> TRUE] >>

\* C5: the database detector creates no streak of type T: every streak of the
\* win list has type W and every streak of the loss list has type L, and for
\* the results W, W, T, L, L the win streak of 2 ends at the game before the
\* tie and is not current while the loss streak of 2 is current
C5_NoTieStreak ==
    streak_db.analysis_type # "none" =>
        /\ \A i \in 1..Len(streak_db.win_streaks) : streak_db.win_streaks[i].type = "W"
        /\ \A i \in 1..Len(streak_db.loss_streaks) : streak_db.loss_streaks[i].type = "L"
        /\ \A k \in 1..Len(streak_db.owner_games) :
              LET og == streak_db.owner_games[k]
              IN Outcomes(og.games) = <<"W", "W", "T", "L", "L">> =>
                    /\ Chronological(Emitted(streak_db, og.owner))
                          = << [type |-> "W", length |-> 2, is_current |-> FALSE],
                               [type |-> "L", length |-> 2, is_current |-> TRUE] >>
                    /\ \E e \in Emitted(streak_db, og.owner) :
                          /\ e.streak.type = "W"
                          /\ EndOf(e.streak) = YearWeek(og.games[2])

\* the database detector has answered for an owner with the results
\* W, W, T, L, L: a closed win streak of 2 and a current loss streak of 2
C5_Witness ==
    /\ streak_db.analysis_type = "all_time"
    /\ \E k \in 1..Len(streak_db.owner_games) :
          /\ Outcomes(streak_db.owner_games[k].games) = <<"W", "W", "T", "L", "L">>
          /\ \E i \in 1..Len(streak_db.win_streaks) :
                /\ streak_db.win_streaks[i].owner = streak_db.owner_games[k].owner
                /\ streak_db.win_streaks[i].length = 2
                /\ ~streak_db.win_streaks[i].is_current
          /\ \E i \in 1..Len(streak_db.loss_streaks) :
                /\ streak_db.loss_streaks[i].owner = streak_db.owner_games[k].owner
                /\ streak_db.loss_streaks[i].type = "L"
                /\ streak_db.loss_streaks[i].length = 2
                /\ streak_db.loss_streaks[i].is_current

\* C6: each owner has at most one streak marked current, and a streak is
\* marked current exactly when its last game is the owner's most recent game;
\* a streak that a tie closed before the end of the input is not current
C6_CurrentIsLastStreak ==
    \A resp \in StreakResponses : \A k \in 1..Len(resp.owner_games) :
        LET og == resp.owner_games[k]
            emitted == Emitted(resp, og.owner)
        IN /\ Cardinality({e \in emitted : e.streak.is_current}) <= 1
           /\ \A e \in emitted :
                 e.streak.is_current
                    <=> EndOf(e.streak) = YearWeek(og.games[Len(og.games)])

-----------------------------------------------------------------------------
(* The legacy specification: NumYears seasons up to the in-progress one, team 2
   in every season, team 1 absent or placed first or third in each of them,
   already imported, aggregated by the three legacy paths *)

LegacyYears == (CurrentYear - NumYears + 1)..CurrentYear

\* what a season can hold for team 1: no team (0) or its placement
LegacyPlaces == {0, 1, 3}

\* a team of a season: a completed season has its final_standing, the
\* in-progress one only the standing of the table so far
LegacyTeam(team_id, year, place, regular) ==
    [LuckTeams[team_id] EXCEPT
        !.wins = 1, !.losses = 1, !.points_for = 1000, !.points_against = 900,
        !.standing = IF year < CurrentYear THEN regular ELSE place,
        !.final_standing = IF year < CurrentYear THEN place ELSE 0]

LegacySeason(year, place) ==
    [teams |-> (IF place = 0 THEN <<>> ELSE <<LegacyTeam(1, year, place, 2)>>)
                  \o <<LegacyTeam(2, year, 2, 1)>>,
     current_week |-> IF year < CurrentYear THEN DefaultMaxWeek ELSE 1,
     weeks |-> <<>>]

InitLegacy ==
    /\ espn \in {[y \in LegacyYears |-> LegacySeason(y, places[y])] :
                    places \in [LegacyYears -> LegacyPlaces]}
    /\ LET db == import_all_data(EmptyDb)
       IN /\ teams = db.teams
          /\ matchups = db.matchups
          /\ box_scores = db.box_scores
          /\ leagues = db.leagues
    /\ import_log = <<[import_type |-> "full", table_name |-> "all_tables",
                       status |-> "completed"]>>
    /\ luck_analysis_matchups = <<>>
    /\ luck_analysis_seasons = <<>>
    /\ live_luck = NoLiveLuck
    /\ streak_db = NoStreaks
    /\ streak_live = NoStreaks
    /\ team_legacy = <<>>
    /\ legacy_db = NoLegacy
    /\ legacy_live = NoLegacy
    /\ exchange = NoExchange
    /\ lookup = NoLookup
    /\ InitLater

NextLegacy ==
    \/ DatabaseAPI_get_team_legacy
    \/ recalculate_team_legacy
    \/ get_team_legacy

SpecLegacy == InitLegacy /\ [][NextLegacy]_vars

-----------------------------------------------------------------------------
(* Properties of the legacy aggregators *)

\* the placement of a teams row: the final standing, else the standing
PlacementOf(row) == IF row.final_standing > 0 THEN row.final_standing ELSE row.standing

\* the placements of an owner of team_legacy in the seasons before the
\* in-progress one, from the teams table
CompletedPlacementsOf(owner_name) ==
    Map(SelectSeq(teams, LAMBDA t :
            /\ RecalcOwnerName(t.owners, t.team_id) = owner_name
            /\ t.year < CurrentYear),
        PlacementOf)

\* C7: an owner's average placement is the mean of the placements of the
\* seasons before the in-progress one, in the records the database API serves
\* (rounded to hundredths) and in the rows recalculate_team_legacy writes
C7_AverageExcludesCurrentSeason ==
    /\ legacy_db.status = "ok" =>
          \A i \in 1..Len(legacy_db.team_legacy) :
              LET r == legacy_db.team_legacy[i]
                  done == SelectSeq(r.placements, LAMBDA p : p.year < CurrentYear)
              IN done # <<>> =>
                    r.average_placement
                       = RoundDiv(100 * SumSeq(Map(done, LAMBDA p : p.placement)),
                                  Len(done))
    /\ \A j \in 1..Len(team_legacy) :
          LET done == CompletedPlacementsOf(team_legacy[j].owner_name)
          IN done # <<>> =>
                team_legacy[j].average_placement[1] * Len(done)
                   = SumSeq(done) * team_legacy[j].average_placement[2]

LegacyResponses == {r \in {legacy_db, legacy_live} : r.status = "ok"}

\* C8: an owner's gap years are the years of the dataset's range, from its
\* first to its last year, in which the owner has no team, without the
\* in-progress season, in the database response and in the live one
C8_GapYearsCompletedOnly ==
    \A resp \in LegacyResponses : \A i \in 1..Len(resp.team_legacy) :
        LET r == resp.team_legacy[i]
            first == SetMin(Range(resp.years_analyzed))
            last == SetMax(Range(resp.years_analyzed))
        IN Range(r.gap_years)
              = {y \in first..last : y < CurrentYear /\ y \notin Range(r.years_active)}

-----------------------------------------------------------------------------
(* Properties of the longest-streak lists *)

\* how often x occurs in the list s
Count(s, x) == Cardinality({i \in 1..Len(s) : s[i] = x})

\* the list `longest` holds min(5, n) of the n streaks of `discovered`, the
\* longest first, and no streak left out is longer than one it holds
IsTopFive(longest, discovered) ==
    /\ Len(longest) = (IF Len(discovered) < 5 THEN Len(discovered) ELSE 5)
    /\ \A i \in 1..Len(longest) : Count(longest, longest[i]) <= Count(discovered, longest[i])
    /\ \A i \in 1..Len(longest) : \A j \in i..Len(longest) :
          longest[i].length >= longest[j].length
    /\ \A k \in 1..Len(discovered) :
          Count(longest, discovered[k]) < Count(discovered, discovered[k])
             => \A i \in 1..Len(longest) : discovered[k].length <= longest[i].length

\* C11: longest_win_streaks (and likewise longest_loss_streaks) contains
\* min(5, n) of the n discovered streaks of that type over all owners, in
\* non-increasing order of length, and no omitted streak is longer than a
\* reported one
C11_LongestAreTopFive ==
    \A resp \in StreakResponses :
        /\ IsTopFive(resp.longest_win_streaks, resp.win_streaks)
        /\ IsTopFive(resp.longest_loss_streaks, resp.loss_streaks)

\* both detectors have answered a season with six win streaks, of which five
\* are reported
C11_Witness ==
    \A resp \in {streak_db, streak_live} :
        /\ resp.analysis_type # "none"
        /\ Len(resp.win_streaks) > 5
        /\ Len(resp.longest_win_streaks) = 5

-----------------------------------------------------------------------------
(* The roster specification: the completed season 2024 and the in-progress
   season 2025, team 1 playing in both against a second team that may change
   owner, already imported, answered by the two all-time streak queries *)

\* a second team whose owner's external id is not in the id table: the
\* team_id table knows team 8 (Nick) and does not know team 5
NewcomerTeam(team_id, first_name) ==
    [LuckTeams[2] EXCEPT
        !.team_id = team_id,
        !.team_name = <<"Team ", first_name>>,
        !.owners = << [id |-> "{00000000-0000-0000-0000-000000000000}",
                       firstName |-> <<first_name>>, lastName |-> <<"Roe">>,
                       displayName |-> <<first_name, "0">>] >>]

RosterTeams == {LuckTeams[2], NewcomerTeam(8, "Nick"), NewcomerTeam(5, "Gus")}

\* the game of a week between team 1 and the second team
RosterWeek(week, opponent, hs) ==
    [kind |-> "box",
     games |-> << [Game(week, hs, 2, 1, 1) EXCEPT
                     !.home_team_id = IF @ = 1 THEN 1 ELSE opponent.team_id,
                     !.away_team_id = IF @ = 1 THEN 1 ELSE opponent.team_id] >>]

\* the home scores of a decided game against 2
RosterScores == {1, 3}

PastSeason(opponent, home_scores) ==
    [teams |-> <<LuckTeams[1], opponent>>, current_week |-> DefaultMaxWeek,
     weeks |-> LET f[k \in 0..MaxPast] ==
                       IF k = 0 THEN <<>>
                       ELSE Append(f[k - 1], RosterWeek(k, opponent, home_scores[k]))
               IN f[MaxPast]]

CurrentSeason(opponent, n, home_scores) ==
    [teams |-> <<LuckTeams[1], opponent>>, current_week |-> n + 1,
     weeks |-> LET f[k \in 0..n] ==
                       IF k = 0 THEN <<>>
                       ELSE Append(f[k - 1], RosterWeek(k, opponent, home_scores[k]))
               IN Append(f[n], [RosterWeek(n + 1, opponent, 0) EXCEPT
                                   !.games[1].away_score = 0])]

InitRoster ==
    /\ \E past \in RosterTeams, now \in RosterTeams, n \in 0..MaxNow :
          \E past_scores \in [1..MaxPast -> RosterScores],
             now_scores \in [1..n -> RosterScores] :
                espn = (CurrentYear - 1) :> PastSeason(past, past_scores)
                       @@ CurrentYear :> CurrentSeason(now, n, now_scores)
    /\ LET db == import_all_data(EmptyDb)
       IN /\ teams = db.teams
          /\ matchups = db.matchups
          /\ box_scores = db.box_scores
          /\ leagues = db.leagues
    /\ import_log = <<[import_type |-> "full", table_name |-> "all_tables",
                       status |-> "completed"]>>
    /\ luck_analysis_matchups = <<>>
    /\ luck_analysis_seasons = <<>>
    /\ live_luck = NoLiveLuck
    /\ streak_db = NoStreaks
    /\ streak_live = NoStreaks
    /\ team_legacy = <<>>
    /\ legacy_db = NoLegacy
    /\ legacy_live = NoLegacy
    /\ exchange = NoExchange
    /\ lookup = NoLookup
    /\ InitLater

NextRoster ==
    \/ DatabaseAPI_get_streak_records(NULL)
    \/ get_streak_records(NULL)

SpecRoster == InitRoster /\ [][NextRoster]_vars

-----------------------------------------------------------------------------
(* Properties of current_streaks *)

\* the owners of the teams of a season, named as the owners of the games are:
\* by _get_owner_name of the team's id and owners in the database path, by
\* the first owner's names in the live path
DbSeasonOwners(year) ==
    {_get_owner_name([team_id |-> teams[i].team_id, owners |-> teams[i].owners]) :
        i \in {j \in 1..Len(teams) : teams[j].year = year}}

LiveSeasonOwners(year) ==
    {LiveOwnerName(LeagueTeams(year)[i]) : i \in 1..Len(LeagueTeams(year))}

\* the streak s is the last of the streaks the response holds for its owner
IsFinalStreak(resp, s) ==
    /\ \E e \in Emitted(resp, s.owner) : e.streak = s
    /\ \A e \in Emitted(resp, s.owner) : EndOf(e.streak) <= EndOf(s)

\* every entry of current_streaks is a final streak of at least 3 games of an
\* owner of `active`
CurrentStreaksWithin(resp, active) ==
    resp.analysis_type = "all_time" =>
        \A i \in 1..Len(resp.current_streaks) :
            /\ IsFinalStreak(resp, resp.current_streaks[i])
            /\ resp.current_streaks[i].length >= 3
            /\ resp.current_streaks[i].owner \in active

\* C12: in an all-time streak query every entry of current_streaks is some
\* owner's final streak, has length at least 3 and belongs to an owner who
\* has a team in the most recent season
C12_CurrentStreaksOfActiveOwners ==
    /\ CurrentStreaksWithin(streak_db, DbSeasonOwners(CurrentYear))
    /\ CurrentStreaksWithin(streak_live, LiveSeasonOwners(CurrentYear))

\* C19: in an all-time query of DatabaseAPI every owner who has a team row in
\* the most recent season and whose final streak has length at least 3
\* appears in current_streaks, owners named through the team_id table included
C19_ActiveOwnersListed ==
    streak_db.analysis_type = "all_time" =>
        \A k \in 1..Len(streak_db.owner_games) :
            LET owner == streak_db.owner_games[k].owner
            IN \A e \in Emitted(streak_db, owner) :
                  /\ owner \in DbSeasonOwners(CurrentYear)
                  /\ IsFinalStreak(streak_db, e.streak)
                  /\ e.streak.length >= 3
                  => \E i \in 1..Len(streak_db.current_streaks) :
                        streak_db.current_streaks[i] = e.streak

-----------------------------------------------------------------------------
(* Properties of the order of team_legacy *)

\* the owner of the record has a placement in a season before the one in progress
HasHistory(r) == \E k \in 1..Len(r.placements) : r.placements[k].year < CurrentYear

\* C13: in team_legacy every owner with completed-season placement history
\* precedes every owner without any, and among the owners with history
\* average_placement is non-decreasing along the list
C13_LegacyOrder ==
    \A resp \in LegacyResponses :
        \A i \in 1..Len(resp.team_legacy) : \A j \in i..Len(resp.team_legacy) :
            LET a == resp.team_legacy[i]
                b == resp.team_legacy[j]
            IN /\ HasHistory(b) => HasHistory(a)
               /\ HasHistory(a) /\ HasHistory(b)
                     => a.average_placement <= b.average_placement

\* both responses list team 2's owner, placed second in every season, ahead
\* of team 1's owner, who finished third in a completed season and has the
\* first rows of the dataset
C13_Witness ==
    /\ LegacyResponses = {legacy_db, legacy_live}
    /\ legacy_db # legacy_live
    /\ teams[1].team_id = 1
    /\ \A resp \in LegacyResponses :
          /\ Len(resp.team_legacy) = 2
          /\ HasHistory(resp.team_legacy[2])
          /\ resp.team_legacy[1].average_placement = 200
          /\ resp.team_legacy[2].average_placement = 300

-----------------------------------------------------------------------------
(* Properties of the gap years *)

\* the gap years of the record lie strictly between the owner's first and
\* last active year
GapYearsWithinSpan(r) ==
    \A k \in 1..Len(r.gap_years) :
        /\ r.gap_years[k] > SetMin(Range(r.years_active))
        /\ r.gap_years[k] < SetMax(Range(r.years_active))

\* C17: every gap year reported for an owner lies within that owner's active
\* span, strictly between the owner's first and last active year
C17_GapYearsWithinActiveSpan ==
    \A resp \in LegacyResponses :
        \A i \in 1..Len(resp.team_legacy) : GapYearsWithinSpan(resp.team_legacy[i])

-----------------------------------------------------------------------------
(* app.py: the year-parameterised endpoints of the live API *)

YearEndpoints ==
    {"get_available_weeks", "get_league_stats_by_year", "get_champions_by_year",
     "get_teams_by_year", "get_matchups_by_year_week", "get_bench_heroes"}

\* if not (first <= year <= last)
ValidYears(handler) ==
    CASE handler = "get_available_weeks" -> 2019..2025
      [] handler = "get_league_stats_by_year" -> 2015..2024
      [] handler = "get_champions_by_year" -> 2015..2025
      [] handler = "get_teams_by_year" -> 2015..2025
      [] handler = "get_matchups_by_year_week" -> 2015..2024
      [] handler = "get_bench_heroes" -> 2019..2025

\* if not (1 <= week <= 18), in the two endpoints that take a week
ValidWeek(handler, week) ==
    handler \in {"get_matchups_by_year_week", "get_bench_heroes"} => week \in 1..18

\* the classes "except Exception" catches: HTTPException is one of them
ExceptionClasses == {"Exception", "ValueError", "HTTPException"}

NoException == [cls |-> "none", status_code |-> NULL, detail |-> <<>>, str |-> <<>>]

\* raise HTTPException(status_code=..., detail=...); its str() is "code: detail"
HTTPException(status_code, detail) ==
    [cls |-> "HTTPException", status_code |-> status_code, detail |-> detail,
     str |-> <<ToString(status_code), ": ">> \o detail]

\* what the upstream client or the processing of its answer raises
UpstreamError ==
    [cls |-> "Exception", status_code |-> NULL, detail |-> <<>>, str |-> <<"upstream">>]

\* the body of the try block of a year endpoint: the exception it raises, if
\* any, and the number of League(...) calls made before it
YearEndpointBody(handler, year, week, upstream) ==
    IF year \notin ValidYears(handler)
    THEN [raised |-> HTTPException(400, <<"Year must be between ...">>), calls |-> 0]
    ELSE IF ~ValidWeek(handler, week)
    THEN [raised |-> HTTPException(400, <<"Week must be between 1 and 18">>), calls |-> 0]
    ELSE IF upstream = "fails"
    THEN [raised |-> UpstreamError, calls |-> 1]
    ELSE [raised |-> NoException, calls |-> 1]

\* except Exception as e: raise HTTPException(500, f"Failed to fetch ...: {str(e)}")
\* around the body; an exception of another class would leave the handler as it is
ExceptException(raised) ==
    IF raised.cls \in ExceptionClasses
    THEN HTTPException(500, <<"Failed to fetch: ">> \o raised.str)
    ELSE raised

\* what the framework writes for a handler that returned, or raised the
\* HTTPException e: its status code and {"detail": detail}
FrameworkWire(e) ==
    IF e.cls = "none"
    THEN << [kind |-> "status", value |-> <<"200">>],
            [kind |-> "body", value |-> <<"data">>] >>
    ELSE << [kind |-> "status", value |-> <<ToString(e.status_code)>>],
            [kind |-> "body", value |-> e.detail] >>

YearEndpointExchange(handler, year, week, upstream) ==
    LET body == YearEndpointBody(handler, year, week, upstream)
    IN [handler |-> handler, year |-> year, week |-> week, upstream |-> upstream,
        raised |-> body.raised,
        upstream_calls |-> body.calls,
        wire |-> FrameworkWire(ExceptException(body.raised))]

\* GET /available-weeks/{year}, /league/stats/{year}, /champions/{year},
\* /teams/{year}, /matchups/{year}/{week}, /bench-heroes/{year}/{week}
YearEndpoint(handler, year, week, upstream) ==
    /\ exchange' = YearEndpointExchange(handler, year, week, upstream)
    /\ UNCHANGED <<espn, teams, matchups, box_scores, leagues, import_log,
                   luck_analysis_matchups, luck_analysis_seasons, live_luck,
                   streak_db, streak_live, team_legacy, legacy_db, legacy_live,
                   lookup,
                   later>>

\* GET /league/stats: try: return get_league_stats() except Exception as e:
\* raise HTTPException(500, ...); get_league_stats re-raises what it catches
get_current_league_stats(upstream) ==
    /\ exchange' =
          LET raised == IF upstream = "fails" THEN UpstreamError ELSE NoException
          IN [handler |-> "get_current_league_stats", year |-> NULL, week |-> NULL,
              upstream |-> upstream, raised |-> raised, upstream_calls |-> 1,
              wire |-> FrameworkWire(ExceptException(raised))]
    /\ UNCHANGED <<espn, teams, matchups, box_scores, leagues, import_log,
                   luck_analysis_matchups, luck_analysis_seasons, live_luck,
                   streak_db, streak_live, team_legacy, legacy_db, legacy_live,
                   lookup,
                   later>>

-----------------------------------------------------------------------------
(* api/league.py and api/matchups.py: handler.do_GET of the serverless API *)

\* a query parameter that is no integer literal
NotANumber == 0 - 998

\* int(query_params.get('year', ['2024'])[0])
IntRaises(param) == param = NotANumber

ValueError(message) ==
    [cls |-> "ValueError", status_code |-> NULL, detail |-> <<>>, str |-> message]

\* self.send_response(code), the send_header calls and self.end_headers():
\* the status line and the headers go out on the connection
SendResponse(code) ==
    << [kind |-> "status", value |-> <<ToString(code)>>],
       [kind |-> "headers", value |-> <<"Content-type: application/json">>] >>

\* except Exception as e: send_response(500) ... wfile.write({'error': str(e)})
DoGetWire(raised) ==
    SendResponse(200)
    \o (IF raised.cls = "none" THEN << [kind |-> "body", value |-> <<"data">>] >>
        ELSE IF raised.cls \in ExceptionClasses
        THEN SendResponse(500) \o << [kind |-> "body", value |-> raised.str] >>
        ELSE <<>>)

\* api/league.py: the exception raised after the headers were sent, if any
LeagueDoGetRaised(year, upstream) ==
    IF IntRaises(year) THEN ValueError(<<"invalid literal for int()">>)
    ELSE IF upstream = "fails" THEN UpstreamError
    ELSE NoException

league_do_GET(year, upstream) ==
    /\ exchange' =
          [handler |-> "league.do_GET", year |-> year, week |-> NULL,
           upstream |-> upstream, raised |-> LeagueDoGetRaised(year, upstream),
           upstream_calls |-> IF IntRaises(year) THEN 0 ELSE 1,
           wire |-> DoGetWire(LeagueDoGetRaised(year, upstream))]
    /\ UNCHANGED <<espn, teams, matchups, box_scores, leagues, import_log,
                   luck_analysis_matchups, luck_analysis_seasons, live_luck,
                   streak_db, streak_live, team_legacy, legacy_db, legacy_live,
                   lookup,
                   later>>

\* api/matchups.py: week is None without the parameter; a week outside
\* weeks_for_year(league) raises ValueError
MatchupsDoGetRaised(year, week, upstream) ==
    IF IntRaises(year) THEN ValueError(<<"invalid literal for int()">>)
    ELSE IF upstream = "fails" THEN UpstreamError
    ELSE IF IsNull(week) THEN NoException
    ELSE IF IntRaises(week) THEN ValueError(<<"invalid literal for int()">>)
    ELSE IF week \notin 1..DefaultMaxWeek
    THEN ValueError(<<"Week ", ToString(week), " not available">>)
    ELSE NoException

matchups_do_GET(year, week, upstream) ==
    /\ exchange' =
          [handler |-> "matchups.do_GET", year |-> year, week |-> week,
           upstream |-> upstream, raised |-> MatchupsDoGetRaised(year, week, upstream),
           upstream_calls |-> IF IntRaises(year) THEN 0 ELSE 1,
           wire |-> DoGetWire(MatchupsDoGetRaised(year, week, upstream))]
    /\ UNCHANGED <<espn, teams, matchups, box_scores, leagues, import_log,
                   luck_analysis_matchups, luck_analysis_seasons, live_luck,
                   streak_db, streak_live, team_legacy, legacy_db, legacy_live,
                   lookup,
                   later>>

-----------------------------------------------------------------------------
(* The request specification: requests to the year endpoints of the live API,
   to GET /league/stats and to the two serverless handlers, each with an
   upstream that answers or fails *)

\* years at and around the limits of the validated ranges
RequestYears == {2014, 2015, 2018, 2019, 2024, 2025, 2026}

RequestWeeks == {0, 1, 18, 19}

Upstreams == {"ok", "fails"}

InitRequests ==
    /\ espn = CurrentYear :> LuckSeason(0, <<>>)
    /\ teams = <<>>
    /\ matchups = <<>>
    /\ box_scores = <<>>
    /\ leagues = <<>>
    /\ import_log = <<>>
    /\ luck_analysis_matchups = <<>>
    /\ luck_analysis_seasons = <<>>
    /\ live_luck = NoLiveLuck
    /\ streak_db = NoStreaks
    /\ streak_live = NoStreaks
    /\ team_legacy = <<>>
    /\ legacy_db = NoLegacy
    /\ legacy_live = NoLegacy
    /\ exchange = NoExchange
    /\ lookup = NoLookup
    /\ InitLater

NextRequests ==
    \/ \E handler \in YearEndpoints, year \in RequestYears, week \in RequestWeeks,
          upstream \in Upstreams : YearEndpoint(handler, year, week, upstream)
    \/ \E upstream \in Upstreams : get_current_league_stats(upstream)
    \/ \E year \in RequestYears \cup {NotANumber}, upstream \in Upstreams :
          league_do_GET(year, upstream)
    \/ \E year \in RequestYears \cup {NotANumber},
          week \in RequestWeeks \cup {NULL, NotANumber}, upstream \in Upstreams :
          matchups_do_GET(year, week, upstream)

SpecRequests == InitRequests /\ [][NextRequests]_vars

-----------------------------------------------------------------------------
(* Properties of the responses *)

StatusLines(wire) == SelectSeq(wire, LAMBDA w : w.kind = "status")
Bodies(wire) == SelectSeq(wire, LAMBDA w : w.kind = "body")

\* the sequence a ends the sequence b
EndsWith(b, a) ==
    Len(a) <= Len(b) /\ SubSeq(b, Len(b) - Len(a) + 1, Len(b)) = a

\* C14: a request to a year endpoint of the live API whose year lies outside
\* the validated range is answered with HTTP 400, and the upstream API is not
\* contacted
C14_YearOutOfRangeIs400 ==
    exchange.handler \in YearEndpoints /\ exchange.year \notin ValidYears(exchange.handler)
        => /\ exchange.upstream_calls = 0
           /\ StatusLines(exchange.wire) = << [kind |-> "status", value |-> <<"400">>] >>

\* C15: a request whose processing raises an exception is answered with
\* status 500 and a body carrying the exception string, and every request
\* has exactly one status line
C15_FailureIsOne500 ==
    exchange.handler # "none" =>
        /\ Len(StatusLines(exchange.wire)) = 1
        /\ exchange.raised.cls # "none" =>
              /\ StatusLines(exchange.wire)[1].value = <<"500">>
              /\ \E i \in 1..Len(Bodies(exchange.wire)) :
                    EndsWith(Bodies(exchange.wire)[i].value, exchange.raised.str)

-----------------------------------------------------------------------------
(* db_api.py: _get_owner_name over the values a teams row can hold *)

\* the values of the owners column
OwnerColumns ==
    {JsonNull, JsonBad, [kind |-> "empty"], [kind |-> "object"],
     [kind |-> "scalars"], [kind |-> "unhashable"],
     JsonDumps(<<>>),
     JsonDumps(<< [displayName |-> <<"anon">>] >>),
     JsonDumps(<< [id |-> "", displayName |-> <<"anon">>] >>),
     JsonDumps(<< [id |-> "{00000000-0000-0000-0000-000000000000}"] >>),
     JsonDumps(<< [id |-> "{B5FBB7B7-C134-4B6B-BBB7-B7C1343B6BCF}"] >>),
     JsonDumps(<< [id |-> "{247150F3-5E23-403B-B150-F35E23603B86}"] >>),
     JsonDumps(<< [id |-> "{2EC18A2F-6C3B-41FF-9B3D-1305343ACF66}"] >>),
     JsonDumps(<< [id |-> "{00000000-0000-0000-0000-000000000000}"],
                  [id |-> "{B5FBB7B7-C134-4B6B-BBB7-B7C1343B6BCF}"] >>),
     JsonDumps(<< [id |-> "{7B4DE853-00A2-41CA-8494-216DEAD703FA}"],
                  [id |-> "{2EC18A2F-6C3B-41FF-9B3D-1305343ACF66}"] >>)}

\* the values of team_id: None, ids of the table, ids outside it
OwnerTeamIds == {NULL, 0, 1, 2, 5, 7, 8, 13, 14, 15}

InitOwner ==
    /\ espn = <<>>
    /\ teams = <<>> /\ matchups = <<>> /\ box_scores = <<>> /\ leagues = <<>>
    /\ import_log = <<>>
    /\ luck_analysis_matchups = <<>> /\ luck_analysis_seasons = <<>>
    /\ team_legacy = <<>>
    /\ live_luck = NoLiveLuck /\ streak_db = NoStreaks /\ streak_live = NoStreaks
    /\ legacy_db = NoLegacy /\ legacy_live = NoLegacy
    /\ exchange = NoExchange
    /\ lookup = NoLookup
    /\ InitLater

DatabaseAPI__get_owner_name(team_data) ==
    /\ lookup' = [team_data |-> team_data,
                  outcome |-> OwnerNameCall(team_data).outcome,
                  cls |-> OwnerNameCall(team_data).cls,
                  name |-> OwnerNameCall(team_data).name]
    /\ UNCHANGED <<espn, teams, matchups, box_scores, leagues, import_log,
                   luck_analysis_matchups, luck_analysis_seasons,
                   live_luck, streak_db, streak_live, team_legacy,
                   legacy_db, legacy_live, exchange,
                   later>>

NextOwner ==
    \E team_id \in OwnerTeamIds : \E owners \in OwnerColumns :
        DatabaseAPI__get_owner_name([team_id |-> team_id, owners |-> owners])

SpecOwner == InitOwner /\ [][NextOwner]_vars

\* the first owner entry of the column carries an id of the ESPN id table
FirstOwnerKnown(team_data) ==
    /\ team_data.owners.kind = "json"
    /\ team_data.owners.json # <<>>
    /\ "id" \in DOMAIN team_data.owners.json[1]
    /\ team_data.owners.json[1].id \in DOMAIN _get_espn_owner_id_mapping

\* C16: _get_owner_name never raises; it returns the ESPN id table's name of
\* the first owner entry's id when that id is in the table, whatever the
\* team_id; otherwise (owners missing, malformed or of the wrong shape
\* included) the team_id table's name when the team_id is in it; otherwise
\* "Unknown".
C16_OwnerNameThreeTiers ==
    lookup.outcome # "none" =>
        /\ lookup.outcome = "returned"
        /\ lookup.name =
             IF FirstOwnerKnown(lookup.team_data)
             THEN _get_espn_owner_id_mapping[lookup.team_data.owners.json[1].id]
             ELSE IF lookup.team_data.team_id \in DOMAIN _get_team_id_owner_mapping
                  THEN _get_team_id_owner_mapping[lookup.team_data.team_id]
                  ELSE <<"Unknown">>

\* a list of strings in the owners column (owner.get raises AttributeError)
\* for team 8: the call returned the team_id table's name
C16_Witness ==
    /\ lookup.outcome = "returned"
    /\ lookup.team_data.owners.kind = "scalars"
    /\ lookup.team_data.team_id = 8
    /\ lookup.name = <<"Nick">>

-----------------------------------------------------------------------------
(* db_api.py: the games, type and span of a streak record *)

\* the record's games are `length` games of the record's type, and the record
\* starts at the first of them and ends at the last
StreakConsistent(s) ==
    /\ Len(s.games) = s.length
    /\ \A i \in 1..Len(s.games) : s.games[i].result = s.type
    /\ s.games # <<>> =>
          /\ StartOf(s) = YearWeek(s.games[1])
          /\ EndOf(s) = YearWeek(s.games[Len(s.games)])

\* C18: every streak record of DatabaseAPI.get_streak_records is internally
\* consistent for any owner sequence over W, L and T: its games list has
\* exactly `length` entries, every listed game has the result of the streak's
\* type, and its start and end (year, week) are those of the first and last
\* game of the run.
C18_StreakRecordsConsistent ==
    streak_db.analysis_type # "none" =>
        /\ \A i \in 1..Len(streak_db.win_streaks) :
              StreakConsistent(streak_db.win_streaks[i])
        /\ \A i \in 1..Len(streak_db.loss_streaks) :
              StreakConsistent(streak_db.loss_streaks[i])

-----------------------------------------------------------------------------
(* update_database.py, calculate_luck.py, app.py: the extremes of a season *)

\* the games of a team's season, in (year, week) order
SeasonGames(rows, year, team_id) ==
    SortByYearWeek(SelectSeq(rows, LAMBDA r : r.year = year /\ r.team_id = team_id))

\* the first game of the sequence with the luck value v
FirstWithLuck(games, luck_of(_), v) ==
    games[SetMin({i \in 1..Len(games) : luck_of(games[i]) = v})]

\* a row of luck_analysis_seasons carries the extremes of its games
SeasonRowExtremes(s) ==
    LET games == SeasonGames(luck_analysis_matchups, s.year, s.team_id)
        lucks == {games[i].luck_points : i \in 1..Len(games)}
        luck_of(g) == g.luck_points
        lucky == FirstWithLuck(games, luck_of, SetMax(lucks))
        unlucky == FirstWithLuck(games, luck_of, SetMin(lucks))
    IN games # <<>> =>
          /\ s.biggest_lucky_points = SetMax(lucks)
          /\ s.biggest_lucky_week = lucky.week
          /\ s.biggest_lucky_opponent = lucky.opponent_name
          /\ s.biggest_unlucky_points = SetMin(lucks)
          /\ s.biggest_unlucky_week = unlucky.week
          /\ s.biggest_unlucky_opponent = unlucky.opponent_name

\* an entry of season_luck_data carries the extremes of its games
LiveSeasonExtremes(d) ==
    LET games == SeasonGames(live_luck.single_matchup_luck, d.year, d.team_id)
        lucks == {games[i].luck : i \in 1..Len(games)}
        luck_of(g) == g.luck
        lucky == FirstWithLuck(games, luck_of, SetMax(lucks))
        unlucky == FirstWithLuck(games, luck_of, SetMin(lucks))
    IN games # <<>> =>
          /\ d.biggest_lucky_game.luck = SetMax(lucks)
          /\ d.biggest_lucky_game.week = lucky.week
          /\ d.biggest_lucky_game.opponent = lucky.opponent
          /\ d.biggest_unlucky_game.luck = SetMin(lucks)
          /\ d.biggest_unlucky_game.week = unlucky.week
          /\ d.biggest_unlucky_game.opponent = unlucky.opponent

\* C20 (stored aggregates): in every row of luck_analysis_seasons
\* biggest_lucky_points is the maximum and biggest_unlucky_points the minimum
\* of the team-season's per-game luck values, and the recorded week and
\* opponent of each extreme are those of the first game in (year, week) order
\* attaining it, also when all the values are negative or all are positive.
C20_SeasonExtremes ==
    \A i \in 1..Len(luck_analysis_seasons) :
        SeasonRowExtremes(luck_analysis_seasons[i])

\* the same property of the live endpoint's season_luck_data
SeasonLuckDataExtremes ==
    \A i \in 1..Len(live_luck.season_luck_data) :
        LiveSeasonExtremes(live_luck.season_luck_data[i])

-----------------------------------------------------------------------------
(* import_espn_data.py: a full import against an upstream that fails in places *)

\* a year for which League(...) raises
Unavailable == [raises |-> TRUE, teams |-> <<>>, weeks |-> <<>>, current_week |-> 0]

\* what the upstream gives for a week: box scores, the scoreboard only, nothing
ImportAnswers == {"box", "scoreboard", "fail"}

ImportWeek(week, answer) ==
    [kind |-> answer,
     games |-> IF answer = "fail" THEN <<>> ELSE <<Game(week, 3, 2, 1, 1)>>]

ImportSeason(year, answers) ==
    [teams |-> LuckTeams,
     current_week |-> IF year = CurrentYear THEN ImportWeeks ELSE DefaultMaxWeek,
     weeks |-> [w \in 1..ImportWeeks |-> ImportWeek(w, answers[w])]]

ImportSeasons == {CurrentYear - 2, CurrentYear - 1, CurrentYear}

InitImport ==
    /\ \E down \in SUBSET ImportSeasons :
       \E answers \in [ImportSeasons -> [1..ImportWeeks -> ImportAnswers]] :
          /\ \A y \in down : \A w \in 1..ImportWeeks : answers[y][w] = "box"
          /\ espn = [y \in ImportSeasons |->
                        IF y \in down THEN Unavailable
                        ELSE ImportSeason(y, answers[y])]
    /\ teams = <<>>
    /\ matchups = <<>>
    /\ box_scores = <<>>
    /\ leagues = <<>>
    /\ import_log = <<>>
    /\ luck_analysis_matchups = <<>>
    /\ luck_analysis_seasons = <<>>
    /\ live_luck = NoLiveLuck
    /\ streak_db = NoStreaks
    /\ streak_live = NoStreaks
    /\ team_legacy = <<>>
    /\ legacy_db = NoLegacy
    /\ legacy_live = NoLegacy
    /\ exchange = NoExchange
    /\ lookup = NoLookup
    /\ InitLater

NextImport == ImportAllData

SpecImport == InitImport /\ [][NextImport]_vars

\* the games of the answered weeks of year y are in the matchups table
WeeksImported(y) ==
    \A w \in 1..MaxWeekOf(y) :
        WeekResponse(y, w).kind # "fail" =>
            \A i \in 1..Len(WeekResponse(y, w).games) :
                MatchupRow(y, w, WeekResponse(y, w).games[i]) \in Range(matchups)

\* a week that fails does not keep the later weeks of its year out
WeekFailureSkipped ==
    import_log # <<>> =>
        \A y \in DOMAIN espn :
            (~LeagueRaises(y) /\ \E i \in 1..Len(leagues) : leagues[i].year = y)
                => WeeksImported(y)

\* C21: during a full import a failure confined to one unit is skipped: a
\* failure fetching week w of a year does not prevent the weeks after w of
\* that year from being imported, and a failure importing one year does not
\* prevent the remaining years from being imported.
C21_FailedUnitSkipped ==
    import_log # <<>> =>
        \A y \in DOMAIN espn :
            ~LeagueRaises(y) =>
                /\ \E i \in 1..Len(leagues) : leagues[i].year = y
                /\ WeeksImported(y)

-----------------------------------------------------------------------------
(* update_database.py: DatabaseUpdater, the incremental updates *)

\* update_current_season: the leagues row of the current year is replaced;
\* returns 1, or 0 when League(...) raises
UpdatedLeagues ==
    IF LeagueRaises(CurrentYear) THEN leagues
    ELSE ExecuteInsert(leagues, LeagueRow(CurrentYear), LeaguesKey)

SeasonUpdates == IF LeagueRaises(CurrentYear) THEN 0 ELSE 1

\* box_scores = league.box_scores(current_week); nothing when the call raises
CurrentWeekBoxScores ==
    IF LeagueRaises(CurrentYear) THEN <<>>
    ELSE LET r == WeekResponse(CurrentYear, espn[CurrentYear].current_week)
         IN IF r.kind = "box" THEN r.games ELSE <<>>

\* UPDATE box_scores ... WHERE id = ? for the row that exists, execute_insert
\* for the one that does not
UpdateBoxScore(table, row) ==
    IF \E i \in 1..Len(table) : KeyOf(table[i], BoxScoresKey) = KeyOf(row, BoxScoresKey)
    THEN [i \in 1..Len(table) |->
            IF KeyOf(table[i], BoxScoresKey) = KeyOf(row, BoxScoresKey)
            THEN row ELSE table[i]]
    ELSE ExecuteInsert(table, row, BoxScoresKey)

UpdatedBoxScores ==
    LET games == CurrentWeekBoxScores
        f[i \in 0..Len(games)] ==
            IF i = 0 THEN box_scores
            ELSE UpdateBoxScore(f[i - 1],
                     BoxScoreRow(CurrentYear, espn[CurrentYear].current_week, games[i]))
    IN f[Len(games)]

\* player_performances_data of update_current_week_performances
CurrentWeekPerformances ==
    FlatMap(CurrentWeekBoxScores, LAMBDA g :
        PerformanceRows(CurrentYear, espn[CurrentYear].current_week, g))

UpdatedPerformances ==
    ExecuteManyInserts(player_performances, CurrentWeekPerformances,
                       PlayerPerformancesKey)

\* team_data of update_team_standings: the columns it supplies; INSERT OR
\* REPLACE leaves the columns it does not supply at NULL
StandingsRow(team) ==
    [team_id |-> team.team_id, year |-> CurrentYear, team_name |-> team.team_name,
     wins |-> team.wins, losses |-> team.losses, ties |-> team.ties,
     points_for |-> team.points_for, points_against |-> team.points_against,
     owners |-> JsonNull,
     standing |-> team.standing, final_standing |-> NULL]

StandingsTeams == IF LeagueRaises(CurrentYear) THEN <<>> ELSE LeagueTeams(CurrentYear)

\* execute_insert('teams', team_data) for each team of the league
UpdatedTeams ==
    LET f[i \in 0..Len(StandingsTeams)] ==
            IF i = 0 THEN teams
            ELSE ExecuteInsert(f[i - 1], StandingsRow(StandingsTeams[i]), TeamsKey)
    IN f[Len(StandingsTeams)]

\* SELECT MAX(date) FROM activities WHERE year = ?; 0 when there is none
LastActivityDate ==
    LET dates == {activities[i].date : i \in {j \in 1..Len(activities) :
                                                  activities[j].year = CurrentYear}}
    IN IF dates = {} \/ SetMax(dates) = 0 THEN 0 ELSE SetMax(dates)

\* if activity_date >= last_date
IsNewerOrSame(activity_date, last_date) == activity_date >= last_date

\* if activity_date > last_date
IsNewer(activity_date, last_date) == activity_date > last_date

NewActivities ==
    IF LeagueRaises(CurrentYear) THEN <<>>
    ELSE Map(SelectSeq(RecentActivity(CurrentYear),
                       LAMBDA a : IsNewer(a.date, LastActivityDate)),
             LAMBDA a : ActivityRow(CurrentYear, a))

UpdatedActivities == activities \o NewActivities

\* updates_made after the four steps of daily_update
UpdatesMade ==
    SeasonUpdates + Len(CurrentWeekPerformances) + Len(StandingsTeams)
    + Len(NewActivities)

\* if updates_made > 0
SignificantAlways(updates_made) == updates_made > 0

\* if updates_made > 10
Significant(updates_made) == updates_made > 10

\* the three derived tables
Derived == <<luck_analysis_seasons, luck_analysis_matchups, team_legacy>>

\* log_import_start(import_type): a row with status 'running'
LogStart(log, import_type) ==
    Append(log, [import_type |-> import_type, table_name |-> NULL, status |-> "running"])

\* an UPDATE of import_log that changes no row
LogStatusKept(log, log_id, status) == log

\* log_import_complete(log_id, ...) and log_import_error(log_id, ...)
LogStatus(log, log_id, status) == [log EXCEPT ![log_id].status = status]

\* the four steps of daily_update, on the tables they write
DailySteps ==
    /\ leagues' = UpdatedLeagues
    /\ box_scores' = UpdatedBoxScores
    /\ player_performances' = UpdatedPerformances
    /\ teams' = UpdatedTeams
    /\ activities' = UpdatedActivities

\* daily_update, from log_import_start to the test of updates_made
daily_update_begin ==
    /\ writer.pc = "idle"
    /\ Len(import_log) < MaxLog
    /\ import_log' = LogStart(import_log, "daily")
    /\ DailySteps
    /\ writer' = [pc |-> IF Significant(UpdatesMade)
                         THEN "daily_recalculate_luck" ELSE "daily_complete",
                  nested |-> FALSE, updates_made |-> UpdatesMade,
                  daily_log |-> Len(import_log) + 1, weekly_log |-> 0]
    /\ returned' = [method |-> "daily_update", value |-> NULL, outcome |-> "running",
                    recalculated |-> FALSE, before |-> Derived,
                    previous |-> returned.method]
    /\ UNCHANGED <<espn, matchups, luck_analysis_matchups, luck_analysis_seasons,
                   live_luck, streak_db, streak_live, team_legacy, legacy_db,
                   legacy_live, exchange, lookup, cache, clock, luck_db>>

\* weekly_update, from log_import_start into the daily_update it calls
weekly_update_begin ==
    /\ writer.pc = "idle"
    /\ Len(import_log) + 1 < MaxLog
    /\ import_log' = LogStart(LogStart(import_log, "weekly"), "daily")
    /\ DailySteps
    /\ writer' = [pc |-> IF Significant(UpdatesMade)
                         THEN "daily_recalculate_luck" ELSE "daily_complete",
                  nested |-> TRUE, updates_made |-> UpdatesMade,
                  daily_log |-> Len(import_log) + 2,
                  weekly_log |-> Len(import_log) + 1]
    /\ returned' = [method |-> "weekly_update", value |-> NULL, outcome |-> "running",
                    recalculated |-> FALSE, before |-> Derived,
                    previous |-> returned.method]
    /\ UNCHANGED <<espn, matchups, luck_analysis_matchups, luck_analysis_seasons,
                   live_luck, streak_db, streak_live, team_legacy, legacy_db,
                   legacy_live, exchange, lookup, cache, clock, luck_db>>

\* recalculate_analytics, first half: recalculate_luck_analysis
analytics_luck ==
    /\ writer.pc \in {"daily_recalculate_luck", "weekly_recalculate_luck"}
    /\ RecalcLuckTables
    /\ writer' = [writer EXCEPT !.pc = IF @ = "daily_recalculate_luck"
                                       THEN "daily_recalculate_legacy"
                                       ELSE "weekly_recalculate_legacy"]
    /\ returned' = [returned EXCEPT !.recalculated = TRUE]
    /\ UNCHANGED <<espn, teams, matchups, box_scores, leagues, import_log, live_luck,
                   streak_db, streak_live, team_legacy, legacy_db, legacy_live,
                   exchange, lookup, player_performances, activities, cache, clock,
                   luck_db>>

\* recalculate_analytics, second half: recalculate_team_legacy
analytics_legacy ==
    /\ writer.pc \in {"daily_recalculate_legacy", "weekly_recalculate_legacy"}
    /\ team_legacy' = RecalcLegacyTable
    /\ writer' = [writer EXCEPT !.pc = IF @ = "daily_recalculate_legacy"
                                       THEN "daily_complete" ELSE "weekly_complete"]
    /\ UNCHANGED <<espn, teams, matchups, box_scores, leagues, import_log,
                   luck_analysis_matchups, luck_analysis_seasons, live_luck,
                   streak_db, streak_live, legacy_db, legacy_live,
                   exchange, lookup, player_performances, activities, returned,
                   cache, clock, luck_db>>

\* the end of daily_update: log_import_complete and the return, or, when
\* log_import_complete raises, the except clause: log_import_error and raise,
\* which the except clause of a calling weekly_update handles the same way
daily_update_end(complete_raises) ==
    /\ writer.pc = "daily_complete"
    /\ IF complete_raises
       THEN /\ import_log' =
                 IF writer.nested
                 THEN LogStatus(LogStatus(import_log, writer.daily_log, "failed"),
                                writer.weekly_log, "failed")
                 ELSE LogStatus(import_log, writer.daily_log, "failed")
            /\ writer' = NoWriter
            /\ returned' = [returned EXCEPT !.outcome = "raised"]
       ELSE /\ import_log' = LogStatus(import_log, writer.daily_log, "completed")
            /\ writer' = IF writer.nested
                         THEN [writer EXCEPT !.pc = "weekly_recalculate_luck"]
                         ELSE NoWriter
            /\ returned' = IF writer.nested THEN returned
                           ELSE [returned EXCEPT !.outcome = "returned",
                                                 !.value = writer.updates_made]
    /\ UNCHANGED <<espn, teams, matchups, box_scores, leagues,
                   luck_analysis_matchups, luck_analysis_seasons, live_luck,
                   streak_db, streak_live, team_legacy, legacy_db, legacy_live,
                   exchange, lookup, player_performances, activities,
                   cache, clock, luck_db>>

\* the end of weekly_update (update_draft_data has returned 0: the league of
\* this model has no draft): log_import_complete, or the except clause
weekly_update_end(complete_raises) ==
    /\ writer.pc = "weekly_complete"
    /\ import_log' = LogStatus(import_log, writer.weekly_log,
                               IF complete_raises THEN "failed" ELSE "completed")
    /\ writer' = NoWriter
    /\ returned' = IF complete_raises
                   THEN [returned EXCEPT !.outcome = "raised"]
                   ELSE [returned EXCEPT !.outcome = "returned"]
    /\ UNCHANGED <<espn, teams, matchups, box_scores, leagues,
                   luck_analysis_matchups, luck_analysis_seasons, live_luck,
                   streak_db, streak_live, team_legacy, legacy_db, legacy_live,
                   exchange, lookup, player_performances, activities,
                   cache, clock, luck_db>>

\* update_team_standings, called by itself
update_team_standings ==
    /\ writer.pc = "idle"
    /\ teams' = UpdatedTeams
    /\ returned' = [method |-> "update_team_standings", value |-> Len(StandingsTeams),
                    outcome |-> "returned", recalculated |-> FALSE,
                    before |-> teams, previous |-> returned.method]
    /\ UNCHANGED <<espn, matchups, box_scores, leagues, import_log,
                   luck_analysis_matchups, luck_analysis_seasons, live_luck,
                   streak_db, streak_live, team_legacy, legacy_db, legacy_live,
                   exchange, lookup, player_performances, activities,
                   cache, clock, writer, luck_db>>

\* update_recent_activities, called by itself
update_recent_activities ==
    /\ writer.pc = "idle"
    /\ activities' = UpdatedActivities
    /\ returned' = [method |-> "update_recent_activities", value |-> Len(NewActivities),
                    outcome |-> "returned", recalculated |-> FALSE,
                    before |-> activities, previous |-> returned.method]
    /\ UNCHANGED <<espn, teams, matchups, box_scores, leagues, import_log,
                   luck_analysis_matchups, luck_analysis_seasons, live_luck,
                   streak_db, streak_live, team_legacy, legacy_db, legacy_live,
                   exchange, lookup, player_performances,
                   cache, clock, writer, luck_db>>

-----------------------------------------------------------------------------
(* The incremental updater against a season in progress *)

\* the players of a lineup, numbered from base + 1
UpdateHalf(n, base) == [k \in 1..n |-> [playerId |-> base + k, points |-> 1]]

\* the sizes of a lineup
UpdateLineups == {0, 3, 4}

\* the activities the feed is made of: two of them carry the same date
FeedActivities ==
    {[date |-> 1, actions |-> <<"add">>], [date |-> 2, actions |-> <<"drop">>],
     [date |-> 2, actions |-> <<"trade">>]}

\* the feeds: up to MaxFeed different activities
Feeds ==
    UNION {{f \in [1..n -> FeedActivities] :
               \A i, j \in 1..n : f[i] = f[j] => i = j} : n \in 0..MaxFeed}

UpdateSeason(answer, home_n, away_n, feed) ==
    [teams |-> LuckTeams, current_week |-> 1, recent_activity |-> feed,
     weeks |-> << [kind |-> answer,
                   games |-> IF answer = "fail" THEN <<>>
                             ELSE << Game(1, 3, 2, 1, 1)
                                     @@ [home_lineup |-> UpdateHalf(home_n, 0),
                                         away_lineup |-> UpdateHalf(away_n, 10)] >>] >>]

InitUpdate ==
    /\ \/ espn = CurrentYear :> Unavailable
       \/ \E feed \in Feeds :
             \/ espn = CurrentYear :> UpdateSeason("fail", 0, 0, feed)
             \/ \E home_n \in UpdateLineups, away_n \in UpdateLineups :
                   espn = CurrentYear :> UpdateSeason("box", home_n, away_n, feed)
    /\ \E imported \in BOOLEAN :
          LET db == IF imported THEN import_all_data(EmptyDb) ELSE EmptyDb
          IN /\ teams = db.teams
             /\ matchups = db.matchups
             /\ box_scores = db.box_scores
             /\ leagues = db.leagues
             /\ player_performances = db.player_performances
             /\ activities = db.activities
             /\ import_log =
                   IF imported
                   THEN <<[import_type |-> "full", table_name |-> "all_tables",
                           status |-> IF ImportRaises THEN "failed" ELSE "completed"]>>
                   ELSE <<>>
    /\ luck_analysis_matchups = <<>>
    /\ luck_analysis_seasons = <<>>
    /\ live_luck = NoLiveLuck
    /\ streak_db = NoStreaks
    /\ streak_live = NoStreaks
    /\ team_legacy = <<>>
    /\ legacy_db = NoLegacy
    /\ legacy_live = NoLegacy
    /\ exchange = NoExchange
    /\ lookup = NoLookup
    /\ returned = NoReturn
    /\ cache = {}
    /\ clock = 0
    /\ writer = NoWriter
    /\ luck_db = NoLuckDb

\* import_all_data, run while no update is running
full_import ==
    /\ writer.pc = "idle"
    /\ Len(import_log) < MaxRuns
    /\ import_log' = FullImportLogged
    /\ LET db == import_all_data(Db)
       IN /\ teams' = db.teams
          /\ matchups' = db.matchups
          /\ box_scores' = db.box_scores
          /\ leagues' = db.leagues
          /\ player_performances' = db.player_performances
          /\ activities' = db.activities
    /\ returned' = [method |-> "import_all_data", value |-> NULL,
                    outcome |-> IF ImportRaises THEN "raised" ELSE "returned",
                    recalculated |-> FALSE, before |-> <<>>,
                    previous |-> returned.method]
    /\ UNCHANGED <<espn, luck_analysis_matchups, luck_analysis_seasons, live_luck,
                   streak_db, streak_live, team_legacy, legacy_db, legacy_live,
                   exchange, lookup, cache, clock, writer, luck_db>>

NextUpdate ==
    \/ full_import
    \/ daily_update_begin
    \/ weekly_update_begin
    \/ analytics_luck
    \/ analytics_legacy
    \/ \E complete_raises \in BOOLEAN : daily_update_end(complete_raises)
    \/ \E complete_raises \in BOOLEAN : weekly_update_end(complete_raises)
    \/ update_team_standings
    \/ update_recent_activities

SpecUpdate == InitUpdate /\ [][NextUpdate]_vars

\* C22: daily_update re-derives the analytics tables (luck_analysis_seasons,
\* luck_analysis_matchups, team_legacy) if and only if the records updated by
\* its four steps number more than 10; with 10 or fewer the three derived
\* tables are as they were before the run.
C22_RecalculateIffSignificant ==
    (returned.method = "daily_update" /\ returned.outcome = "returned") =>
        /\ returned.recalculated <=> returned.value > 10
        /\ returned.value <= 10 => Derived = returned.before
        /\ returned.value > 10 =>
              /\ luck_analysis_seasons = IF RecalcRaises THEN <<>> ELSE RecalcSeasonTable
              /\ luck_analysis_matchups = IF RecalcRaises THEN <<>> ELSE RecalcMatchupTable
              /\ team_legacy = RecalcLegacyTable

\* a daily update of 11 records has returned and the derived tables, empty
\* before the run, hold rows
C22_Witness ==
    /\ returned.method = "daily_update"
    /\ returned.outcome = "returned"
    /\ returned.value = 11
    /\ returned.before = <<<<>>, <<>>, <<>>>>
    /\ luck_analysis_seasons # <<>>
    /\ team_legacy # <<>>

\* a daily update of 10 records has returned with derived tables that held
\* rows before the run
DailyOfTenAfterWeekly ==
    /\ returned.method = "daily_update"
    /\ returned.outcome = "returned"
    /\ returned.value = 10
    /\ team_legacy # <<>>

-----------------------------------------------------------------------------
(* import_log after a run, the teams rows and the activities after an update *)

\* the rows of import_log opened by the run that ended last: the last row, and
\* for a weekly update the row before it as well (weekly first, then daily)
LastLog == import_log[Len(import_log)]
WeeklyLog == import_log[Len(import_log) - 1]

\* C24: every import_log entry opened for a full import, a daily update or a
\* weekly update has left status 'running' when the run has returned or
\* raised: it is 'completed' if the run returned and 'failed' if it raised,
\* and a weekly update whose daily update fails marks both its own entry and
\* the daily entry 'failed'.
C24_NoRunningEntryAfterRun ==
    writer.pc = "idle" =>
        /\ \A i \in 1..Len(import_log) : import_log[i].status # "running"
        /\ returned.method \in {"import_all_data", "daily_update"} =>
              /\ returned.outcome = "returned" => LastLog.status = "completed"
              /\ returned.outcome = "raised" => LastLog.status = "failed"
        /\ returned.method = "weekly_update" =>
              /\ returned.outcome = "returned" =>
                    WeeklyLog.status = "completed" /\ LastLog.status = "completed"
              /\ returned.outcome = "raised" => WeeklyLog.status = "failed"
              /\ LastLog.status = "failed" => WeeklyLog.status = "failed"

\* a weekly update has raised out of its daily update: both entries are failed
C24_Witness ==
    /\ writer.pc = "idle"
    /\ returned.method = "weekly_update"
    /\ returned.outcome = "raised"
    /\ WeeklyLog.import_type = "weekly" /\ WeeklyLog.status = "failed"
    /\ LastLog.import_type = "daily" /\ LastLog.status = "failed"

\* the row of the teams table with the key of row r
SameTeam(table, r) ==
    SelectSeq(table, LAMBDA t : KeyOf(t, TeamsKey) = KeyOf(r, TeamsKey))

\* C25: update_team_standings changes only the columns it supplies: a
\* current-season team row that existed before the update keeps its owners
\* and its final_standing.
C25_StandingsKeepOtherColumns ==
    (returned.method = "update_team_standings" /\ StandingsTeams # <<>>) =>
        \A i \in 1..Len(returned.before) :
            LET old == returned.before[i]
            IN old.year = CurrentYear =>
                  /\ Len(SameTeam(teams, old)) = 1
                  /\ SameTeam(teams, old)[1].owners = old.owners
                  /\ SameTeam(teams, old)[1].final_standing = old.final_standing

\* the rows update_recent_activities has added
AddedActivities == SubSeq(activities, Len(returned.before) + 1, Len(activities))

\* C30: update_recent_activities inserts only activities newer than the
\* latest stored activity date of the current year: run twice in a row
\* against the same upstream it inserts nothing the second time and returns
\* 0, and it never stores an activity that is stored already.
C30_SecondUpdateInsertsNothing ==
    returned.method = "update_recent_activities" =>
        /\ returned.value = Len(AddedActivities)
        /\ \A i \in 1..Len(AddedActivities) :
              /\ AddedActivities[i] \notin Range(returned.before)
              /\ \A j \in 1..Len(returned.before) :
                    returned.before[j].year = CurrentYear =>
                        AddedActivities[i].date > returned.before[j].date
              /\ \A j \in 1..Len(AddedActivities) :
                    AddedActivities[i] = AddedActivities[j] => i = j
        /\ returned.previous = "update_recent_activities" =>
              returned.value = 0 /\ activities = returned.before

\* update_recent_activities has run twice in a row: the table holds the two
\* activities of the feed the first run stored, the second run returned 0
C30_Witness ==
    /\ returned.method = "update_recent_activities"
    /\ returned.previous = "update_recent_activities"
    /\ returned.value = 0
    /\ Len(activities) = 2
    /\ import_log = <<>>


\* ---------------------------------------------------------------------
\* cache_setup.py: the caching decorator of the live API
\* ---------------------------------------------------------------------

\* the number of requests of one run
MaxCalls == 3

\* CACHE_DURATIONS, in seconds
CACHE_DURATIONS ==
    [daily |-> 24 * 60 * 60, weekly |-> 7 * 24 * 60 * 60,
     hourly |-> 60 * 60, short |-> 5 * 60, never |-> 0]

\* ENDPOINT_CACHE_CONFIG in the order of the dict; a path is the sequence
\* of its segments
ENDPOINT_CACHE_CONFIG ==
    << <<<<"available-years">>, "daily">>,
       <<<<"available-weeks">>, "daily">>,
       <<<<"bench-heroes">>, "daily">>,
       <<<<"streak-records">>, "daily">>,
       <<<<"luck-analysis">>, "daily">>,
       <<<<"champions">>, "weekly">>,
       <<<<"team-legacy">>, "weekly">>,
       <<<<"matchups">>, "hourly">>,
       <<<<"league", "stats">>, "short">>,
       <<<<"standings">>, "short">>,
       <<<<"health">>, "never">> >>

\* needle in haystack, segment by segment
Contains(haystack, needle) ==
    \E i \in 0..(Len(haystack) - Len(needle)) :
        \A j \in 1..Len(needle) : haystack[i + j] = needle[j]

\* get_cache_duration(endpoint_path)
get_cache_duration(endpoint_path) ==
    LET exact == {i \in 1..Len(ENDPOINT_CACHE_CONFIG) :
                      ENDPOINT_CACHE_CONFIG[i][1] = endpoint_path}
        partial == {i \in 1..Len(ENDPOINT_CACHE_CONFIG) :
                        Contains(endpoint_path, ENDPOINT_CACHE_CONFIG[i][1])}
        First(s) == CHOOSE i \in s : \A j \in s : i <= j
    IN  IF exact # {}
        THEN CACHE_DURATIONS[ENDPOINT_CACHE_CONFIG[First(exact)][2]]
        ELSE IF partial # {}
        THEN CACHE_DURATIONS[ENDPOINT_CACHE_CONFIG[First(partial)][2]]
        ELSE CACHE_DURATIONS["short"]

\* str(value) of an argument
ArgStr(value) ==
    CASE value = NULL -> "None"
      [] value = 1 -> "1"
      [] value = 2024 -> "2024"
      [] value = 2025 -> "2025"

\* str(args) + str(kwargs) of a call by keyword
ArgString(kwargs) ==
    <<"()", "{">>
    \o (IF "year" \in DOMAIN kwargs
        THEN <<"'year': ", ArgStr(kwargs.year)>> ELSE <<>>)
    \o (IF "week" \in DOMAIN kwargs
        THEN <<"'week': ", ArgStr(kwargs.week)>> ELSE <<>>)
    \o <<"}">>

\* cache_key: the path and the hash of the argument string; the hash is
\* taken to be free of collisions on the strings that occur
cache_key(endpoint_path, kwargs) == <<endpoint_path, "_", ArgString(kwargs)>>

\* cache_key in cache_storage
Stored(storage, key) == {e \in storage : e.key = key}

\* an entry of exactly the duration still served
IsFreshOrDue(age, cache_duration) == age <= cache_duration

\* age < cache_duration
IsFresh(age, cache_duration) == age < cache_duration

\* the entry for key that the wrapper serves at current_time
Hit(storage, key, current_time, cache_duration) ==
    {e \in Stored(storage, key) :
         IsFresh(current_time - e.timestamp, cache_duration)}

\* cache_storage[cache_key] = (result, current_time)
Store(storage, key, result, current_time) ==
    (storage \ Stored(storage, key))
        \cup {[key |-> key, data |-> result, timestamp |-> current_time]}

\* a failed request leaves its marker in the cache
StoreFailure(storage, key, current_time) ==
    Store(storage, key, "error", current_time)

\* what a failed request does to cache_storage
AfterRaise(storage, key, current_time) == storage

\* what the handler answers at a time
Fresh(endpoint_path, kwargs, current_time) ==
    [endpoint |-> endpoint_path, kwargs |-> kwargs, fetched |-> current_time]

\* everything the decorator does not touch
unserved ==
    <<espn, teams, matchups, box_scores, leagues, import_log,
      luck_analysis_matchups, luck_analysis_seasons, live_luck, streak_db,
      streak_live, team_legacy, legacy_db, legacy_live, exchange, lookup>>

\* the calls made so far
Calls == IF "calls" \in DOMAIN returned THEN returned.calls ELSE 0

\* wrapper(*args, **kwargs) of cached_endpoint(endpoint_path); raises
\* tells whether the handler raises when it is invoked
wrapper(endpoint_path, kwargs, raises) ==
    LET key == cache_key(endpoint_path, kwargs)
        current_time == clock
        cache_duration == get_cache_duration(endpoint_path)
        hit == Hit(cache, key, current_time, cache_duration)
        call == [method |-> "cached_endpoint", endpoint_path |-> endpoint_path,
                 kwargs |-> kwargs, current_time |-> current_time,
                 before |-> cache, calls |-> Calls + 1]
    IN  /\ Calls < MaxCalls
        /\ IF cache_duration = 0
           THEN /\ cache' = cache
                /\ returned' =
                     IF raises
                     THEN call @@ [invoked |-> TRUE, outcome |-> "raised",
                                   value |-> NULL]
                     ELSE call @@ [invoked |-> TRUE, outcome |-> "returned",
                                   value |-> Fresh(endpoint_path, kwargs,
                                                   current_time)]
           ELSE IF hit # {}
           THEN /\ ~ raises
                /\ cache' = cache
                /\ returned' = call @@ [invoked |-> FALSE,
                                        outcome |-> "returned",
                                        value |-> (CHOOSE e \in hit : TRUE).data]
           ELSE IF raises
           THEN /\ cache' = AfterRaise(cache, key, current_time)
                /\ returned' = call @@ [invoked |-> TRUE, outcome |-> "raised",
                                        value |-> NULL]
           ELSE /\ cache' = Store(cache, key,
                                  Fresh(endpoint_path, kwargs, current_time),
                                  current_time)
                /\ returned' = call @@ [invoked |-> TRUE,
                                        outcome |-> "returned",
                                        value |-> Fresh(endpoint_path, kwargs,
                                                        current_time)]
        /\ UNCHANGED <<unserved, player_performances, activities, clock, writer, luck_db>>

\* clear_cache()
clear_cache ==
    /\ cache # {}
    /\ cache' = {}
    /\ returned' = [method |-> "clear_cache", calls |-> Calls]
    /\ UNCHANGED <<unserved, player_performances, activities, clock, writer, luck_db>>

\* the instants at which time.time() is read: around every duration
Instants ==
    {0} \cup UNION {{CACHE_DURATIONS[c] - 1, CACHE_DURATIONS[c]} :
                        c \in {"short", "hourly", "daily", "weekly"}}

\* time passes
tick ==
    /\ \E t \in Instants : t > clock /\ clock' = t
    /\ UNCHANGED <<unserved, player_performances, activities, cache, returned, writer, luck_db>>

\* the requests: the path of the decorator and the keyword arguments
CachedRequests ==
    {<<<<"streak-records">>, [year |-> NULL]>>,
     <<<<"streak-records">>, [year |-> 2024]>>,
     <<<<"team-legacy">>, <<>>>>,
     <<<<"matchups", "week">>, [week |-> 1]>>,
     <<<<"standings">>, <<>>>>,
     <<<<"teams", "year">>, [year |-> 2024]>>,
     <<<<"health">>, <<>>>>}

InitCache ==
    /\ espn = <<>>
    /\ teams = <<>>
    /\ matchups = <<>>
    /\ box_scores = <<>>
    /\ leagues = <<>>
    /\ import_log = <<>>
    /\ luck_analysis_matchups = <<>>
    /\ luck_analysis_seasons = <<>>
    /\ live_luck = NoLiveLuck
    /\ streak_db = NoStreaks
    /\ streak_live = NoStreaks
    /\ team_legacy = <<>>
    /\ legacy_db = NoLegacy
    /\ legacy_live = NoLegacy
    /\ exchange = NoExchange
    /\ lookup = NoLookup
    /\ InitLater

Request ==
    \E r \in CachedRequests, raises \in BOOLEAN : wrapper(r[1], r[2], raises)

NextCache ==
    \/ Request
    \/ clear_cache
    \/ tick

SpecCache == InitCache /\ [][NextCache]_vars

\* the last step was a request through the decorator
Served == returned.method = "cached_endpoint"

\* the entries of the last request's key before the request
EntryBefore ==
    Stored(returned.before,
           cache_key(returned.endpoint_path, returned.kwargs))

\* C23: a request to an endpoint with a non-zero duration is answered
\* from the cache, the handler not invoked, exactly when the cache held
\* an entry for the same path and arguments whose age is strictly below
\* the duration of the endpoint's class (24 h, 7 d, 1 h, 5 min; 5 min for
\* an unlisted path); the answer is then the stored data and the cache is
\* unchanged. An entry of that age or older is not served: the handler is
\* invoked, and when it returns its result replaces the entry, stamped
\* with the time of the request.
C23_ServedIffFresh ==
    (Served /\ get_cache_duration(returned.endpoint_path) # 0) =>
        LET ttl == get_cache_duration(returned.endpoint_path)
            key == cache_key(returned.endpoint_path, returned.kwargs)
            fresh == {e \in EntryBefore :
                          returned.current_time - e.timestamp < ttl}
        IN  /\ ttl \in {86400, 604800, 3600, 300}
            /\ (~ returned.invoked) <=> (fresh # {})
            /\ (~ returned.invoked) =>
                   /\ \E e \in fresh : returned.value = e.data
                   /\ cache = returned.before
            /\ (returned.invoked /\ returned.outcome = "returned") =>
                   /\ returned.value.fetched = returned.current_time
                   /\ Stored(cache, key) =
                          {[key |-> key, data |-> returned.value,
                            timestamp |-> returned.current_time]}
                   /\ cache \ Stored(cache, key) =
                          returned.before \ EntryBefore

\* an entry one second short of its duration has been served, and an
\* entry of exactly its duration has been replaced, in the weekly class
C23_Witness ==
    /\ Served
    /\ returned.endpoint_path = <<"team-legacy">>
    /\ returned.invoked
    /\ returned.outcome = "returned"
    /\ \E e \in EntryBefore : returned.current_time - e.timestamp = 604800

C23_WitnessServed ==
    /\ Served
    /\ ~ returned.invoked
    /\ \E e \in EntryBefore : returned.current_time - e.timestamp = 299

\* a failed request leaves the cache as it was
RaiseLeavesCache ==
    (Served /\ returned.outcome = "raised") =>
        /\ returned.invoked
        /\ cache = returned.before
        /\ returned.value = NULL

\* C28: when the handler raises, the cache is as it was before the
\* request: nothing is stored for the key, an expired entry keeps its
\* data and its timestamp and is not served; and the request for the
\* same path and arguments that follows invokes the handler again
C28_RaiseLeavesCache ==
    /\ []RaiseLeavesCache
    /\ [][(/\ Served
        /\ returned.outcome = "raised"
        /\ returned' # returned
        /\ returned'.method = "cached_endpoint"
        /\ returned'.endpoint_path = returned.endpoint_path
        /\ returned'.kwargs = returned.kwargs)
           => returned'.invoked]_vars

\* the handler has raised over an expired entry
C28_Witness ==
    /\ Served
    /\ returned.outcome = "raised"
    /\ get_cache_duration(returned.endpoint_path) # 0
    /\ EntryBefore # {}


-----------------------------------------------------------------------------
(* db_api.py: DatabaseAPI.get_luck_analysis, read from the committed tables *)

FirstN(s, n) == SubSeq(s, 1, IF Len(s) < n THEN Len(s) ELSE n)

Abs(x) == IF x < 0 THEN 0 - x ELSE x

\* a key of ORDER BY year DESC, total_luck DESC
YearThenLuckDescending(r) == 0 - (r.year * 100000 + r.total_luck)

\* a key of sorted(..., key=total_luck, reverse=True) over all the seasons
LuckDescending(r) == 0 - r.total_luck

\* SELECT ... FROM luck_analysis_seasons ORDER BY year DESC, total_luck DESC
SeasonsQuery(seasons) ==
    SortedBy(seasons, Map(seasons, YearThenLuckDescending))

\* SELECT ... FROM luck_analysis_matchups WHERE ABS(luck_points) > 10
\* ORDER BY ABS(luck_points) DESC LIMIT 20
TopMatchupsQuery(rows) ==
    LET big == SelectSeq(rows, LAMBDA r : Abs(r.luck_points) > 10)
    IN FirstN(SortedBy(big, Map(big, LAMBDA r : 0 - Abs(r.luck_points))), 20)

\* transform_season_data(season)
transform_season_data(season) ==
    [year |-> season.year, team_name |-> season.team_name,
     owner |-> season.owner_name, total_luck |-> season.total_luck,
     average_luck |-> season.average_luck,
     games_played |-> season.games_played,
     biggest_lucky_game |->
         IF IsNull(season.biggest_lucky_week) \/ season.biggest_lucky_week = 0
         THEN <<>>
         ELSE <<[week |-> season.biggest_lucky_week,
                 opponent |-> season.biggest_lucky_opponent,
                 luck |-> season.biggest_lucky_points]>>,
     biggest_unlucky_game |->
         IF IsNull(season.biggest_unlucky_week) \/ season.biggest_unlucky_week = 0
         THEN <<>>
         ELSE <<[week |-> season.biggest_unlucky_week,
                 opponent |-> season.biggest_unlucky_opponent,
                 luck |-> season.biggest_unlucky_points]>>]

\* transform_matchup_data(matchup)
transform_matchup_data(matchup) ==
    [year |-> matchup.year, week |-> matchup.week,
     team_name |-> matchup.team_name,
     owner |-> IF matchup.owner_name = <<>> THEN <<"Unknown">>
               ELSE matchup.owner_name,
     opponent |-> matchup.opponent_name, luck |-> matchup.luck_points,
     actual_score |-> matchup.actual_score,
     projected_score |-> matchup.projected_score,
     opponent_actual |-> matchup.opponent_actual,
     opponent_projected |-> matchup.opponent_projected,
     actual_margin |-> matchup.actual_margin,
     projected_margin |-> matchup.projected_margin]

\* the seasons in the order of the query
AllSeasonsTransformed(seasons) ==
    Map(SeasonsQuery(seasons), transform_season_data)

\* the three seasons of the highest total luck, whatever their year
LuckiestOverall(seasons) ==
    LET all == AllSeasonsTransformed(seasons)
        lucky == SelectSeq(all, LAMBDA s : s.total_luck > 0)
    IN FirstN(SortedBy(lucky, Map(lucky, LuckDescending)), 3)

\* [s for s in all_seasons_transformed if s['total_luck'] > 0][:3]
LuckiestSeasons(seasons) ==
    FirstN(SelectSeq(AllSeasonsTransformed(seasons),
                     LAMBDA s : s.total_luck > 0), 3)

\* sorted([s for s in ... if s['total_luck'] < 0], key=total_luck)[:3]
UnluckiestSeasons(seasons) ==
    LET unlucky == SelectSeq(AllSeasonsTransformed(seasons),
                             LAMBDA s : s.total_luck < 0)
    IN FirstN(SortedBy(unlucky, Map(unlucky, LAMBDA s : s.total_luck)), 3)

\* COUNT(DISTINCT year || '-' || week || '-' || team_id || '-' ||
\* opponent_team_id) / 2
UniqueGames(rows) ==
    Cardinality({<<rows[i].year, rows[i].week, rows[i].team_id,
                   rows[i].opponent_team_id>> : i \in 1..Len(rows)}) \div 2

\* SELECT DISTINCT year FROM (... UNION ...) ORDER BY year
YearsAnalyzed(seasons, rows) ==
    LET years == {seasons[i].year : i \in 1..Len(seasons)}
                 \cup {rows[i].year : i \in 1..Len(rows)}
    IN SortedBy(Descending(years), Map(Descending(years), LAMBDA y : y))

\* the dict DatabaseAPI.get_luck_analysis returns over the committed tables
DbLuckAnalysis(seasons, rows) ==
    IF Len(seasons) > 0
    THEN LET all_matchups == Map(TopMatchupsQuery(rows), transform_matchup_data)
             negative == SelectSeq(all_matchups, LAMBDA x : x.luck < 0)
         IN [luckiest_seasons |-> LuckiestSeasons(seasons),
             unluckiest_seasons |-> UnluckiestSeasons(seasons),
             luckiest_single_matchups |->
                 FirstN(SelectSeq(all_matchups, LAMBDA x : x.luck > 0), 5),
             unluckiest_single_matchups |->
                 FirstN(SortedBy(negative, Map(negative, LAMBDA x : x.luck)), 5),
             total_seasons_analyzed |-> Len(YearsAnalyzed(seasons, rows)),
             total_games_analyzed |-> UniqueGames(rows),
             years_analyzed |-> YearsAnalyzed(seasons, rows),
             data_source |-> "database"]
    ELSE [luckiest_seasons |-> <<>>, unluckiest_seasons |-> <<>>,
          luckiest_single_matchups |-> <<>>,
          unluckiest_single_matchups |-> <<>>,
          total_seasons_analyzed |-> 0, total_matchups_analyzed |-> 0,
          data_source |-> "database",
          message |-> "Luck analysis data not yet calculated"]

\* a request served by DatabaseAPI.get_luck_analysis on connections of its
\* own: it reads what is committed
DatabaseAPI_get_luck_analysis ==
    /\ luck_db' = [kind |-> "database",
                   during |-> writer.pc,
                   seen |-> luck_analysis_seasons,
                   result |-> DbLuckAnalysis(luck_analysis_seasons,
                                             luck_analysis_matchups)]
    /\ UNCHANGED <<espn, teams, matchups, box_scores, leagues, import_log,
                   luck_analysis_matchups, luck_analysis_seasons, live_luck,
                   streak_db, streak_live, team_legacy, legacy_db, legacy_live,
                   exchange, lookup, player_performances, activities,
                   returned, cache, clock, writer>>

-----------------------------------------------------------------------------
(* The writers of the luck tables, statement by statement. The table
   variables hold what is committed; a writer's record holds the tables as
   its own connection sees them while its transaction is open *)

\* everything no writer of the luck tables touches
unwritten ==
    <<espn, teams, matchups, box_scores, leagues, import_log, live_luck,
      streak_db, streak_live, team_legacy, legacy_db, legacy_live, exchange,
      lookup, player_performances, activities, cache, clock>>

LuckTables == [seasons |-> luck_analysis_seasons,
               matchups |-> luck_analysis_matchups]

\* connection.commit(): the connection's view becomes the committed one
Commit(view) ==
    /\ luck_analysis_seasons' = view.seasons
    /\ luck_analysis_matchups' = view.matchups

\* sqlite3's Connection.__exit__ with an exception commits what was done
RollbackNot(committed, view) == view

\* sqlite3's Connection.__exit__ with an exception: rollback()
Rollback(committed, view) == committed

\* calculate_luck.py: 'with get_connection() as conn', the two DELETEs (they
\* open the transaction) and the SELECT of the joined matchups
populate_begin ==
    /\ writer.pc = "idle"
    /\ writer' = [pc |-> "populate_insert_matchups",
                  view |-> [seasons |-> <<>>, matchups |-> <<>>]]
    /\ returned' = [method |-> "populate_luck_analysis", outcome |-> "running",
                    before |-> LuckTables]
    /\ UNCHANGED <<unwritten, luck_analysis_seasons, luck_analysis_matchups,
                   luck_db>>

\* the loop over the matchups and executemany(INSERT INTO luck_analysis_matchups)
populate_insert_matchups ==
    /\ writer.pc = "populate_insert_matchups"
    /\ writer' = [pc |-> "populate_insert_seasons",
                  view |-> [writer.view EXCEPT !.matchups = PopulateLuckMatchups]]
    /\ UNCHANGED <<unwritten, luck_analysis_seasons, luck_analysis_matchups,
                   returned, luck_db>>

\* the aggregate query over the inserted rows and
\* executemany(INSERT INTO luck_analysis_seasons)
populate_insert_seasons ==
    /\ writer.pc = "populate_insert_seasons"
    /\ writer' = [pc |-> "populate_exit",
                  view |-> [writer.view EXCEPT
                              !.seasons = PopulateSeasonRecords(writer.view.matchups)]]
    /\ UNCHANGED <<unwritten, luck_analysis_seasons, luck_analysis_matchups,
                   returned, luck_db>>

\* the statistics are printed and the with block is left: commit()
populate_exit ==
    /\ writer.pc = "populate_exit"
    /\ Commit(writer.view)
    /\ writer' = NoWriter
    /\ returned' = [returned EXCEPT !.outcome = "returned"]
    /\ UNCHANGED <<unwritten, luck_db>>

\* a statement after the DELETEs raises (a locked database, a None score):
\* the with block is left by the exception
populate_raise ==
    /\ writer.pc \in {"populate_insert_matchups", "populate_insert_seasons",
                      "populate_exit"}
    /\ Commit(Rollback(LuckTables, writer.view))
    /\ writer' = NoWriter
    /\ returned' = [returned EXCEPT !.outcome = "raised"]
    /\ UNCHANGED <<unwritten, luck_db>>

\* update_database.py, recalculate_luck_analysis: the two DELETEs through
\* connection.execute (they open a transaction and are not committed), the
\* SELECT and the loop
recalculate_begin ==
    /\ writer.pc = "idle"
    /\ writer' = [pc |-> IF RecalcRaises THEN "recalculate_returned"
                         ELSE "recalculate_insert_seasons",
                  view |-> [seasons |-> <<>>, matchups |-> <<>>]]
    /\ returned' = [method |-> "recalculate_luck_analysis",
                    outcome |-> "running", before |-> LuckTables]
    /\ UNCHANGED <<unwritten, luck_analysis_seasons, luck_analysis_matchups,
                   luck_db>>

\* if season_luck_data: execute_many_inserts('luck_analysis_seasons', ...),
\* which commits
recalculate_insert_seasons ==
    /\ writer.pc = "recalculate_insert_seasons"
    /\ LET view == [writer.view EXCEPT !.seasons = RecalcSeasonTable]
       IN /\ writer' = [pc |-> "recalculate_insert_matchups", view |-> view]
          /\ IF RecalcSeasonTable # <<>>
             THEN Commit(view)
             ELSE UNCHANGED <<luck_analysis_seasons, luck_analysis_matchups>>
    /\ UNCHANGED <<unwritten, returned, luck_db>>

\* if matchup_luck: execute_many_inserts('luck_analysis_matchups', ...),
\* which commits
recalculate_insert_matchups ==
    /\ writer.pc = "recalculate_insert_matchups"
    /\ LET view == [writer.view EXCEPT !.matchups = RecalcMatchupTable]
       IN /\ writer' = [pc |-> "recalculate_returned", view |-> view]
          /\ IF RecalcMatchupTable # <<>>
             THEN Commit(view)
             ELSE UNCHANGED <<luck_analysis_seasons, luck_analysis_matchups>>
    /\ UNCHANGED <<unwritten, returned, luck_db>>

\* the next commit of the run on the updater's connection (the inserts of
\* recalculate_team_legacy, log_import_complete)
recalculate_next_commit ==
    /\ writer.pc = "recalculate_returned"
    /\ Commit(writer.view)
    /\ writer' = NoWriter
    /\ returned' = [returned EXCEPT !.outcome = "returned"]
    /\ UNCHANGED <<unwritten, luck_db>>

\* the weeks played in the transaction specification
MaxPlayed == 5

\* a season of n weeks, every week answered alike
PlayedAnswers ==
    {[kind |-> "box", hs |-> 3, hp |-> 1, ap |-> 1],
     [kind |-> "box", hs |-> 3, hp |-> 1, ap |-> 3],
     [kind |-> "box", hs |-> 0, hp |-> 1, ap |-> 2],
     [kind |-> "box", hs |-> 3, hp |-> NULL, ap |-> 1]}

PlayedSeason(n, a) == LuckSeason(n, [k \in 1..n |-> a])

\* nothing stored, nothing derived, nothing answered
Blank ==
    /\ teams = <<>>
    /\ matchups = <<>>
    /\ box_scores = <<>>
    /\ leagues = <<>>
    /\ import_log = <<>>
    /\ luck_analysis_matchups = <<>>
    /\ luck_analysis_seasons = <<>>
    /\ live_luck = NoLiveLuck
    /\ streak_db = NoStreaks
    /\ streak_live = NoStreaks
    /\ team_legacy = <<>>
    /\ legacy_db = NoLegacy
    /\ legacy_live = NoLegacy
    /\ exchange = NoExchange
    /\ lookup = NoLookup
    /\ InitLater

\* the season in progress and one completed season
InitLuckDb ==
    /\ \E n \in {0, MaxPlayed - 1, MaxPlayed} :
       \E a, b \in {x \in PlayedAnswers : ~IsNull(x.hp)} :
          espn = (CurrentYear :> PlayedSeason(n, a))
                 @@ ((CurrentYear - 1) :> PlayedSeason(MaxPlayed, b))
    /\ Blank

\* the full import and the recalculation as whole runs, the two handlers
\* of GET /luck-analysis
NextLuckDb ==
    \/ full_import
    \/ recalculate_luck_analysis
    \/ get_luck_analysis
    \/ DatabaseAPI_get_luck_analysis

SpecLuckDb == InitLuckDb /\ [][NextLuckDb]_vars

InitTxn ==
    /\ \E n \in {0, MaxPlayed - 1, MaxPlayed}, a \in PlayedAnswers :
          espn = CurrentYear :> PlayedSeason(n, a)
    /\ teams = <<>>
    /\ matchups = <<>>
    /\ box_scores = <<>>
    /\ leagues = <<>>
    /\ import_log = <<>>
    /\ luck_analysis_matchups = <<>>
    /\ luck_analysis_seasons = <<>>
    /\ live_luck = NoLiveLuck
    /\ streak_db = NoStreaks
    /\ streak_live = NoStreaks
    /\ team_legacy = <<>>
    /\ legacy_db = NoLegacy
    /\ legacy_live = NoLegacy
    /\ exchange = NoExchange
    /\ lookup = NoLookup
    /\ InitLater

NextTxn ==
    \/ full_import
    \/ populate_begin
    \/ populate_insert_matchups
    \/ populate_insert_seasons
    \/ populate_exit
    \/ populate_raise
    \/ recalculate_begin
    \/ recalculate_insert_seasons
    \/ recalculate_insert_matchups
    \/ recalculate_next_commit
    \/ DatabaseAPI_get_luck_analysis

SpecTxn == InitTxn /\ [][NextTxn]_vars

\* the last read of the API saw rows in luck_analysis_seasons and none in
\* luck_analysis_matchups
SeasonsWithoutMatchups ==
    /\ luck_db.kind = "database"
    /\ "years_analyzed" \in DOMAIN luck_db.result
    /\ luck_db.result.total_games_analyzed = 0

\* C26: a request served by DatabaseAPI.get_luck_analysis, on connections
\* of its own, never reads a committed state with rows in
\* luck_analysis_seasons and none in luck_analysis_matchups, also while
\* recalculate_luck_analysis is running
C26_ReaderNeverSeesSeasonsAlone == ~ SeasonsWithoutMatchups

\* between the runs the committed tables are consistent: seasons only
\* with matchups
QuiescentConsistent ==
    (writer.pc = "idle" /\ luck_analysis_seasons # <<>>)
        => luck_analysis_matchups # <<>>

\* C27: populate_luck_analysis is all-or-nothing. While it runs and after
\* it has raised, the committed tables are those of before the run; after
\* it has returned they hold exactly the newly computed rows
C27_PopulateAllOrNothing ==
    (returned.method = "populate_luck_analysis") =>
        /\ returned.outcome \in {"running", "raised"} =>
               LuckTables = returned.before
        /\ returned.outcome = "returned" =>
               /\ luck_analysis_matchups = PopulateLuckMatchups
               /\ luck_analysis_seasons =
                      PopulateSeasonRecords(PopulateLuckMatchups)

\* populate_luck_analysis has raised after its DELETEs over filled tables
C27_Witness ==
    /\ returned.method = "populate_luck_analysis"
    /\ returned.outcome = "raised"
    /\ returned.before.seasons # <<>>
    /\ returned.before.matchups # <<>>

\* populate_luck_analysis has returned and replaced other rows by new ones
PopulateReplaced ==
    /\ returned.method = "populate_luck_analysis"
    /\ returned.outcome = "returned"
    /\ returned.before.seasons # <<>>
    /\ luck_analysis_seasons # <<>>
    /\ luck_analysis_seasons # returned.before.seasons

\* (year, team, total luck) of the seasons of a list
SeasonKeys(seasons) ==
    Map(seasons, LAMBDA x : <<x.year, x.team_name, x.total_luck>>)

\* C29: the luckiest_seasons of DatabaseAPI.get_luck_analysis are the (up
\* to 3) team-seasons of the highest positive total_luck over all the
\* years, in descending order of total_luck, as unluckiest_seasons are
\* the lowest negative ones in ascending order
C29_LuckiestAreHighestOverall ==
    (luck_db.kind = "database") =>
        /\ luck_db.result.luckiest_seasons = LuckiestOverall(luck_db.seen)
        /\ luck_db.result.unluckiest_seasons = UnluckiestSeasons(luck_db.seen)

\* sorted(season_luck_data, key=total_luck, reverse=True)[:3] of the live
\* handler
LiveLuckiestSeasons ==
    FirstN(SortedBy(live_luck.season_luck_data,
                    Map(live_luck.season_luck_data, LuckDescending)), 3)

\* the database path and the live handler, both asked over the same
\* seasons, select the same luckiest seasons
DbSelectsAsLive ==
    (/\ luck_db.kind = "database"
     /\ luck_db.seen = luck_analysis_seasons
     /\ writer.pc = "idle"
     /\ SeasonKeys(live_luck.season_luck_data) # <<>>
     /\ {SeasonKeys(live_luck.season_luck_data)[i] :
             i \in 1..Len(live_luck.season_luck_data)}
        = {SeasonKeys(luck_analysis_seasons)[i] :
             i \in 1..Len(luck_analysis_seasons)})
    => SeasonKeys(luck_db.result.luckiest_seasons)
           = SeasonKeys(LiveLuckiestSeasons)

\* the lowest negative seasons are listed in ascending order over two years
UnluckiestOverTwoYears ==
    /\ luck_db.kind = "database"
    /\ Len(luck_db.result.unluckiest_seasons) = 2
    /\ luck_db.result.unluckiest_seasons[1].year
           # luck_db.result.unluckiest_seasons[2].year

=============================================================================
